---- MODULE Spec2Model ----
(***************************************************************************)
(* The field extraction engine of post_processors/post_processor.py:       *)
(* parse_page3_blocks_resilient and the helpers it calls.                  *)
(*                                                                         *)
(* Text is a sequence of characters.  A character is a one-character       *)
(* string; a character outside ASCII is written by its code point          *)
(* ("U+2014").  Python values whose type matters (a block's content) carry *)
(* their type in the field t.  A dict is a function on its set of keys.    *)
(***************************************************************************)
EXTENDS Integers, Sequences, FiniteSets, TLC

\* ------------------------------------------------------------------ text

\* A string literal as text.
Chars(s) == [i \in 1 .. Len(s) |-> SubSeq(s, i, i)]

UpperCase == Chars("ABCDEFGHIJKLMNOPQRSTUVWXYZ") \o <<"U+00C4">>
LowerCase == Chars("abcdefghijklmnopqrstuvwxyz") \o <<"U+00E4">>

Letters == {UpperCase[i] : i \in DOMAIN UpperCase} \cup {LowerCase[i] : i \in DOMAIN LowerCase}
              \cup {"U+00EE", "U+00F2", "U+00EB", "U+00FA", "U+00EC"}

Digits == {"0", "1", "2", "3", "4", "5", "6", "7", "8", "9"}

\* \w of the re module.
WordChars == Letters \cup Digits \cup {"_"}

\* The characters str.strip() removes and \s matches.
Whitespace == {" ", "\t", "\n", "\r"}

UpperSet == {UpperCase[i] : i \in DOMAIN UpperCase}

\* str.lower() on one character.
LowerChar(c) ==
    IF c \in UpperSet
    THEN LowerCase[CHOOSE i \in DOMAIN UpperCase : UpperCase[i] = c]
    ELSE c

\* str.lower()
Lower(s) == [i \in DOMAIN s |-> LowerChar(s[i])]

\* The number of whitespace characters s starts with, from n on.
RECURSIVE LeadingSpace(_, _)
LeadingSpace(s, n) ==
    IF n < Len(s) /\ s[n + 1] \in Whitespace THEN LeadingSpace(s, n + 1) ELSE n

\* The number of whitespace characters s ends with, from n on.
RECURSIVE TrailingSpace(_, _)
TrailingSpace(s, n) ==
    IF n < Len(s) /\ s[Len(s) - n] \in Whitespace THEN TrailingSpace(s, n + 1) ELSE n

\* str.strip()
Strip(s) ==
    IF LeadingSpace(s, 0) = Len(s) THEN <<>>
    ELSE SubSeq(s, 1 + LeadingSpace(s, 0), Len(s) - TrailingSpace(s, 0))

\* s[pos:].startswith(t), positions from 1
StartsWithAt(s, pos, t) ==
    /\ pos + Len(t) - 1 <= Len(s)
    /\ \A i \in 1 .. Len(t) : s[pos + i - 1] = t[i]

\* s.startswith(t)
StartsWith(s, t) == StartsWithAt(s, 1, t)

\* t in s
Contains(s, t) == \E pos \in 1 .. Len(s) + 1 : StartsWithAt(s, pos, t)

\* s.find(t), positions from 1; 0 when t is not in s
Find(s, t) ==
    IF Contains(s, t)
    THEN CHOOSE pos \in 1 .. Len(s) + 1 :
            /\ StartsWithAt(s, pos, t)
            /\ \A q \in 1 .. pos - 1 : ~StartsWithAt(s, q, t)
    ELSE 0

\* s.count(c) for a single character c
Count(s, c) == Cardinality({i \in DOMAIN s : s[i] = c})

\* "\n".join(parts)
RECURSIVE JoinLines(_)
JoinLines(parts) ==
    IF Len(parts) = 0 THEN <<>>
    ELSE IF Len(parts) = 1 THEN parts[1]
    ELSE parts[1] \o <<"\n">> \o JoinLines(Tail(parts))

\* s.split(sep, 1) when sep is in s: the text before and after its first occurrence
SplitOnce(s, sep) ==
    LET p == Find(s, sep) IN
    <<SubSeq(s, 1, p - 1), SubSeq(s, p + Len(sep), Len(s))>>

\* ------------------------------------------------------------------ re
\* A pattern is a sequence of items, matched left to right as the re module
\* matches them: a quantifier is greedy and gives characters back only when
\* the rest of the pattern fails.
\*   lit   : the text s
\*   set   : between min and max characters of cs (or outside cs when neg);
\*           with inf there is no upper limit
\*   alt   : the first of the literal alternatives opts that lets the rest match
\*   open/close : the parentheses of capture group g
\*   eol   : $      wordb : \b      end : the end of the text (fullmatch)
\*   nodigit : (?!.*\d)

SetItem(neg, cs, lo, hi, inf) ==
    [k |-> "set", neg |-> neg, cs |-> cs, min |-> lo, max |-> hi, inf |-> inf]

\* [cs]          [cs]{lo,hi}          [cs]{lo,}  (lo = 0: *, lo = 1: +)
One(cs) == <<SetItem(FALSE, cs, 1, 1, FALSE)>>
Rep(cs, lo, hi) == <<SetItem(FALSE, cs, lo, hi, FALSE)>>
Many(cs, lo) == <<SetItem(FALSE, cs, lo, lo, TRUE)>>
\* [^cs]{lo,}
NotMany(cs, lo) == <<SetItem(TRUE, cs, lo, lo, TRUE)>>
\* a literal
Lit(str) == <<[k |-> "lit", s |-> Chars(str)]>>
Alt(opts) == <<[k |-> "alt", opts |-> opts]>>
Open(g) == <<[k |-> "open", g |-> g]>>
Close(g) == <<[k |-> "close", g |-> g]>>
Eol == <<[k |-> "eol"]>>
WordB == <<[k |-> "wordb"]>>
End == <<[k |-> "end"]>>
NoDigitAhead == <<[k |-> "nodigit"]>>

\* Are the characters a and b the same (ic: re.I)?
SameChar(a, b, ic) == IF ic THEN LowerChar(a) = LowerChar(b) ELSE a = b

\* Is the literal t at pos of s?
LitAt(s, pos, t, ic) ==
    /\ pos + Len(t) - 1 <= Len(s)
    /\ \A i \in 1 .. Len(t) : SameChar(s[pos + i - 1], t[i], ic)

\* Does character c match the set item it?
InSet(it, c, ic) == (\E x \in it.cs : SameChar(x, c, ic)) # it.neg

\* The longest run of characters of s from pos that match it, at most it.max.
RECURSIVE RunLen(_, _, _, _, _)
RunLen(it, s, pos, ic, n) ==
    IF /\ pos + n <= Len(s)
       /\ (it.inf \/ n < it.max)
       /\ InSet(it, s[pos + n], ic)
    THEN RunLen(it, s, pos, ic, n + 1)
    ELSE n

NoMatch == [ok |-> FALSE]

IsWordAt(s, pos) == pos >= 1 /\ pos <= Len(s) /\ s[pos] \in WordChars

Largest(ns) == CHOOSE n \in ns : \A m \in ns : m <= n
Smallest(ns) == CHOOSE n \in ns : \A m \in ns : n <= m

\* Is there a digit from pos to the end of the line of s?
DigitAhead(s, pos) ==
    \E i \in pos .. Len(s) : s[i] \in Digits /\ \A j \in pos .. i - 1 : s[j] # "\n"

RECURSIVE MatchAt(_, _, _, _, _, _)

\* A greedy quantifier that can take from lo to hi characters takes the most
\* that lets the rest of the pattern match.
TryCount(p, k, s, pos, caps, ic, lo, hi) ==
    LET good == {c \in lo .. hi : MatchAt(p, k + 1, s, pos + c, caps, ic).ok} IN
    IF good = {} THEN NoMatch
    ELSE MatchAt(p, k + 1, s, pos + Largest(good), caps, ic)

\* The alternatives are tried in the order they are written.
TryAlt(p, k, s, pos, caps, ic, opts) ==
    LET good == {a \in DOMAIN opts :
                    /\ StartsWithAt(s, pos, opts[a])
                    /\ MatchAt(p, k + 1, s, pos + Len(opts[a]), caps, ic).ok}
    IN  IF good = {} THEN NoMatch
        ELSE MatchAt(p, k + 1, s, pos + Len(opts[Smallest(good)]), caps, ic)

\* The match of items k.. of p on s from pos, or NoMatch.  caps holds the
\* groups captured so far: g -> <<first, last + 1>>.
MatchAt(p, k, s, pos, caps, ic) ==
    IF k > Len(p) THEN [ok |-> TRUE, end |-> pos, caps |-> caps]
    ELSE CASE p[k].k = "lit" ->
                IF LitAt(s, pos, p[k].s, ic)
                THEN MatchAt(p, k + 1, s, pos + Len(p[k].s), caps, ic) ELSE NoMatch
           [] p[k].k = "set" ->
                TryCount(p, k, s, pos, caps, ic, p[k].min, RunLen(p[k], s, pos, ic, 0))
           [] p[k].k = "alt" -> TryAlt(p, k, s, pos, caps, ic, p[k].opts)
           [] p[k].k = "open" ->
                MatchAt(p, k + 1, s, pos, [caps EXCEPT ![p[k].g] = <<pos, pos>>], ic)
           [] p[k].k = "close" ->
                MatchAt(p, k + 1, s, pos, [caps EXCEPT ![p[k].g] = <<@[1], pos>>], ic)
           [] p[k].k = "eol" ->
                IF pos = Len(s) + 1 \/ (pos = Len(s) /\ s[pos] = "\n")
                THEN MatchAt(p, k + 1, s, pos, caps, ic) ELSE NoMatch
           [] p[k].k = "end" ->
                IF pos = Len(s) + 1
                THEN MatchAt(p, k + 1, s, pos, caps, ic) ELSE NoMatch
           [] p[k].k = "wordb" ->
                IF IsWordAt(s, pos - 1) # IsWordAt(s, pos)
                THEN MatchAt(p, k + 1, s, pos, caps, ic) ELSE NoMatch
           [] p[k].k = "nodigit" ->
                IF DigitAhead(s, pos)
                THEN NoMatch ELSE MatchAt(p, k + 1, s, pos, caps, ic)

NoGroups == [g \in 1 .. 2 |-> <<0, 0>>]

\* re.match(p, s)
ReMatch(p, s, ic) == MatchAt(p, 1, s, 1, NoGroups, ic)

\* re.fullmatch(p, s)
ReFullMatch(p, s, ic) == MatchAt(p \o End, 1, s, 1, NoGroups, ic)

\* The match at the first of the positions hits, if there is one.
MatchAtFirst(p, s, ic, hits) ==
    IF hits = {} THEN NoMatch ELSE MatchAt(p, 1, s, Smallest(hits), NoGroups, ic)

\* re.search(p, s): the match at the leftmost position that has one
ReSearch(p, s, ic) ==
    MatchAtFirst(p, s, ic, {pos \in 1 .. Len(s) + 1 : MatchAt(p, 1, s, pos, NoGroups, ic).ok})

\* m.group(g)
Group(m, s, g) == SubSeq(s, m.caps[g][1], m.caps[g][2] - 1)

\* ------------------------------------------------------------------ values

PyNone == [t |-> "NoneType"]
PyStr(s) == [t |-> "str", v |-> s]
PyInt(n) == [t |-> "int", v |-> n]
PyList(rows) == [t |-> "list", v |-> rows]

\* No test of the type at all.
IsInstanceAny(x) == TRUE

\* isinstance(x, str)
IsInstanceStr(x) == x.t = "str"

\* A dict: a function on its keys.
EmptyDict == [k \in {} |-> FALSE]
\* d[k] = v
Put(d, k, v) == [x \in DOMAIN d \cup {k} |-> IF x = k THEN v ELSE d[x]]
\* d.setdefault(k, v)
SetDefault(d, k, v) == IF k \in DOMAIN d THEN d ELSE Put(d, k, v)
\* d.get(k) of a dict of strings
GetStr(d, k) == IF k \in DOMAIN d THEN PyStr(d[k]) ELSE PyNone

\* ------------------------------------------------------------------ helpers

EmDash == <<"U+2014">>
\* The UTF-8 bytes of the em-dash read as Mac Roman.
EmDashMisdecoded == <<"U+201A", "U+00C4", "U+00EE">>
\* The UTF-8 bytes of U+2611 and of U+2713 read as Mac Roman.
BoxMisdecoded == <<"U+201A", "U+00F2", "U+00EB">>
CheckMisdecoded == <<"U+201A", "U+00FA", "U+00EC">>

EMPTY_TOKENS_NoHyphen ==
    {<<>>, Chars("<empty>"), Chars("\\u2014"), EmDash, EmDashMisdecoded}

EMPTY_TOKENS ==
    {<<>>, Chars("<empty>"), Chars("\\u2014"), EmDash, EmDashMisdecoded, Chars("-")}

\* str(s) for the values _clean and _is_placeholder are given
ToStr(x) == x.v

\* The token test comes before the strip.
_cleanTestThenStrip(x) ==
    IF x.t = "NoneType" THEN <<>>
    ELSE IF ToStr(x) \in EMPTY_TOKENS THEN <<>> ELSE Strip(ToStr(x))

_clean(x) ==
    IF x.t = "NoneType" THEN <<>>
    ELSE LET s == Strip(ToStr(x)) IN
         IF s \in EMPTY_TOKENS THEN <<>> ELSE s

\* The token test without the strip.
_is_placeholderUnstripped(x) ==
    IF x.t = "NoneType" THEN TRUE
    ELSE ToStr(x) \in EMPTY_TOKENS

_is_placeholder(x) ==
    IF x.t = "NoneType" THEN TRUE
    ELSE Strip(ToStr(x)) \in EMPTY_TOKENS

\* :\s*(.*)$
ReAfterColon ==
    Lit(":") \o Many(Whitespace, 0) \o Open(1) \o NotMany({"\n"}, 0) \o Close(1) \o Eol

\* _clean(m.group(1)) if m else ""
CleanGroup1(m, s) == IF m.ok THEN _clean(PyStr(Group(m, s, 1))) ELSE <<>>

_after_colon(line) == CleanGroup1(ReSearch(ReAfterColon, line, FALSE), line)

\* \d{1,2}/\d{1,2}
ReMonthDay == Rep(Digits, 1, 2) \o Lit("/") \o Rep(Digits, 1, 2)

\* calendar year ended\s+(\d{1,2}/\d{1,2})/?\s*[:\-]?\s*(\d{4})
ReCalendarEnded ==
    Lit("calendar year ended") \o Many(Whitespace, 1)
        \o Open(1) \o ReMonthDay \o Close(1)
        \o Rep({"/"}, 0, 1) \o Many(Whitespace, 0) \o Rep({":", "-"}, 0, 1)
        \o Many(Whitespace, 0) \o Open(2) \o Rep(Digits, 4, 4) \o Close(2)

\* (\d{4})(?!.*\d)
ReLastYear == Open(1) \o Rep(Digits, 4, 4) \o Close(1) \o NoDigitAhead

\* Line 24: the first month/day and the last four digits of the line.
MonthDayAndYear(m1, m2, line) ==
    IF m1.ok /\ m2.ok
    THEN Group(m1, line, 1) \o <<"/">> \o Group(m2, line, 1)
    ELSE <<>>

\* Line 21, or else the value of line 24.
CalendarOr(m, line, other) ==
    IF m.ok THEN Group(m, line, 1) \o <<"/">> \o Group(m, line, 2) ELSE other

_calendar_ended(line) ==
    CalendarOr(ReSearch(ReCalendarEnded, line, TRUE), line,
               MonthDayAndYear(ReSearch(Open(1) \o ReMonthDay \o Close(1), line, FALSE),
                               ReSearch(ReLastYear, line, FALSE), line))

\* ------------------------------------------------------------------ _parse_table_blob

AsciiLetters == {c \in Letters : Len(c) = 1}
Quote == "\""

\* "<label>"\s*,\s*"([^<stop>]*)"
ReLabelled(label, stop) ==
    Lit(Quote \o label \o Quote) \o Many(Whitespace, 0) \o Lit(",") \o Many(Whitespace, 0)
        \o Lit(Quote) \o Open(1) \o NotMany(stop, 0) \o Close(1) \o Lit(Quote)

\* "<label>"\s*,\s*"([^"]*)"
ReCell(label) == ReLabelled(label, {Quote})

\* The cell labelled "TIN".
ReTinShortLabel == ReCell("TIN")

\* "U\.S\. Taxpayer Identification Number"\s*,\s*"([^"]*)"
ReTin == ReCell("U.S. Taxpayer Identification Number")

\* "4a Type\s+([^"]+)"   and   "4a Type\s*([^"]+)"
Re4aType(lo) ==
    Lit(Quote \o "4a Type") \o Many(Whitespace, lo)
        \o Open(1) \o NotMany({Quote}, 1) \o Close(1) \o Lit(Quote)

\* First name\s+([^\s\]",]+)
ReFirstName ==
    Lit("First name") \o Many(Whitespace, 1)
        \o Open(1) \o NotMany(Whitespace \cup {"]", Quote, ","}, 1) \o Close(1)

\* "Country\s+([A-Za-z]{2,})"
ReCountry ==
    Lit(Quote \o "Country") \o Many(Whitespace, 1)
        \o Open(1) \o Many(AsciiLetters, 2) \o Close(1) \o Lit(Quote)

\* (14a[^]]*\][^\[]*)(14b[^]]*)
Re14aTo14b ==
    Open(1) \o Lit("14a") \o NotMany({"]"}, 0) \o Lit("]") \o NotMany({"["}, 0) \o Close(1)
        \o Open(2) \o Lit("14b") \o NotMany({"]"}, 0) \o Close(2)

\* (14a[^]]*\][\s\S]*)$
Re14aOnly ==
    Open(1) \o Lit("14a") \o NotMany({"]"}, 0) \o Lit("]") \o NotMany({}, 0) \o Close(1) \o Eol

\* \["<option>",\s*"\s*\[(?:x|X)\]\s*"
ReCheckedCell(option) ==
    Lit("[" \o Quote \o option \o Quote \o ",") \o Many(Whitespace, 0) \o Lit(Quote)
        \o Many(Whitespace, 0) \o Lit("[") \o One({"x", "X"}) \o Lit("]")
        \o Many(Whitespace, 0) \o Lit(Quote)

\* (14b[\s\S]*)$
Re14b == Open(1) \o Lit("14b") \o NotMany({}, 0) \o Close(1) \o Eol

MisdecodedMarks ==
    {BoxMisdecoded[i] : i \in 1 .. 3} \cup {CheckMisdecoded[i] : i \in 1 .. 3}

\* Yes[^"\]]*["\]]\s*[\[<misdecoded marks>xX]
ReYesB ==
    Lit("Yes") \o NotMany({Quote, "]"}, 0) \o One({Quote, "]"}) \o Many(Whitespace, 0)
        \o One({"["} \cup MisdecodedMarks \cup {"x", "X"})

\* No[^"\]]*[\u2611<misdecoded marks>xX]
ReNoB ==
    Lit("No") \o NotMany({Quote, "]"}, 0)
        \o One({"U+2611"} \cup MisdecodedMarks \cup {"x", "X"})

\* grab(pat): the cleaned group 1 of the first match in blob, ignoring case
grab(pat, blob) == CleanGroup1(ReSearch(pat, blob, TRUE), blob)

\* x or y, of strings
OrElse(x, y) == IF x # <<>> THEN x ELSE y

\* if v: d[k] = v
PutIfSet(d, k, v) == IF v # <<>> THEN Put(d, k, v) ELSE d

\* The foreign dict of _parse_table_blob (lines 37-42).
ForeignOf(blob) ==
    PutIfSet(
        PutIfSet(
            PutIfSet(EmptyDict, "Type", OrElse(grab(Re4aType(1), blob), grab(Re4aType(0), blob))),
            "Number", grab(ReCell("4b Number"), blob)),
        "Country_of_issue", grab(ReCell("4c Country of Issue"), blob))

\* group 1 of the first match that is one, else ""
Group1Of(m, other, s) ==
    IF m.ok THEN Group(m, s, 1) ELSE IF other.ok THEN Group(other, s, 1) ELSE <<>>

\* seg_14a (lines 62-67)
Seg14a(blob) ==
    Group1Of(ReSearch(Re14aTo14b, blob, TRUE), ReSearch(Re14aOnly, blob, TRUE), blob)

\* Lines 68-74, from seg_14a
Checked14a(seg_14a) ==
    IF seg_14a # <<>>
    THEN IF ReSearch(ReCheckedCell("No"), seg_14a, FALSE).ok THEN FALSE
         ELSE ReSearch(ReCheckedCell("Yes"), seg_14a, FALSE).ok
    ELSE FALSE

\* out["FINANCIAL_Interest_accounts"]
FinancialInterest(blob) == Checked14a(Seg14a(blob))

\* seg_14b (lines 77-78)
Seg14b(blob) == Group1Of(ReSearch(Re14b, blob, TRUE), NoMatch, blob)

\* Lines 79-84, from seg_14b
Checked14b(seg_14b) ==
    IF seg_14b # <<>>
    THEN IF ReSearch(ReNoB, seg_14b, FALSE).ok THEN FALSE
         ELSE IF ReSearch(ReYesB, seg_14b, FALSE).ok THEN TRUE ELSE FALSE
    ELSE FALSE

\* out["Sign_Auth_no_interest"]
SignAuth(blob) == Checked14b(Seg14b(blob))

\* if _is_placeholder(d.get(k)): d[k] = ""
BlankPlaceholder(d, k) == IF _is_placeholder(GetStr(d, k)) THEN Put(d, k, <<>>) ELSE d

\* Lines 87-88 and 182-183
NormalizeInitials(d) == BlankPlaceholder(BlankPlaceholder(d, "Middle_Initial"), "Suffix")

\* out["Foreign_identification"] = foreign, empty or not.
WithForeignAlways(out, foreign) == Put(out, "Foreign_identification", foreign)

\* if foreign: out["Foreign_identification"] = foreign
WithForeign(out, foreign) ==
    IF DOMAIN foreign # {} THEN Put(out, "Foreign_identification", foreign) ELSE out

_parse_table_blob(blob) ==
    NormalizeInitials(WithForeign(
        [ Type_of_filer |-> grab(ReCell("Type of filer"), blob),
          TIN |-> grab(ReTin, blob),
          TIN_TYPE |-> grab(ReCell("TIN type"), blob),
          DOB |-> grab(ReLabelled("Individual's date of birth", {Quote, "."}), blob),
          Last_name_or_organization |-> grab(ReCell("Last name or organization"), blob),
          First_Name |-> CleanGroup1(ReSearch(ReFirstName, blob, TRUE), blob),
          Middle_Initial |-> _clean(PyStr(grab(ReCell("Middle initial"), blob))),
          Suffix |-> _clean(PyStr(grab(ReCell("Suffix"), blob))),
          Mailing_address |-> grab(ReCell("Mailing address"), blob),
          City |-> grab(ReCell("City"), blob),
          State |-> grab(ReCell("State"), blob),
          zip_postal_code |-> grab(ReCell("Zip/postal code"), blob),
          Country |-> CleanGroup1(ReSearch(ReCountry, blob, TRUE), blob),
          FINANCIAL_Interest_accounts |-> FinancialInterest(blob),
          Sign_Auth_no_interest |-> SignAuth(blob) ],
        ForeignOf(blob)))

\* ------------------------------------------------------------------ parse_page3_blocks_resilient

Header == Chars("Part I - Filer Information")

\* ^Form\s+(\d+)\b
ReForm == Lit("Form") \o Many(Whitespace, 1) \o Open(1) \o Many(Digits, 1) \o Close(1) \o WordB

\* \d{4}
ReYear == Rep(Digits, 4, 4)

\* \[(x|X|<misdecoded U+2611>|<misdecoded U+2713>)\]
ReMark == Lit("[") \o Alt(<<Chars("x"), Chars("X"), BoxMisdecoded, CheckMisdecoded>>) \o Lit("]")

\* s.count("[") - s.count("]")
NetBrackets(s) == Count(s, "[") - Count(s, "]")

\* blk.get("content")
ContentOf(blk) == IF "content" \in DOMAIN blk THEN blk["content"] ELSE PyNone

\* The locals of one call, as lines 92-95 create them.  fired is the record
\* of the pass: for each block examined, the branch the loop body took, the
\* field rule it applied and whether a blob completed there.
FreshLocals ==
    [result |-> EmptyDict, expect_name |-> FALSE, accumulating |-> FALSE,
     table_buf |-> <<>>, raised |-> FALSE, fired |-> <<>>]

Note(st, branch, rule, completed) ==
    [st EXCEPT !.fired = Append(@, [branch |-> branch, rule |-> rule, completed |-> completed])]

\* "" if _is_placeholder(v) else v
BlankIfPlaceholder(v) == IF _is_placeholder(PyStr(v)) THEN <<>> ELSE v

\* The fields of d, and those of e that d lacks.
Merged(d, e) == [k \in DOMAIN d \cup DOMAIN e |-> IF k \in DOMAIN d THEN d[k] ELSE e[k]]

\* The parse is merged into the Filer_Information of an earlier blob.
CompleteMerging(st, text) ==
    [st EXCEPT !.result =
                  Put(@, "Filer_Information",
                      IF "Filer_Information" \in DOMAIN st.result
                      THEN Merged(_parse_table_blob(text), st.result["Filer_Information"])
                      ELSE _parse_table_blob(text)),
               !.accumulating = FALSE]

\* The buffer is emptied when the blob completes.
CompleteClearing(st, text) ==
    [st EXCEPT !.result = Put(@, "Filer_Information", _parse_table_blob(text)),
               !.accumulating = FALSE, !.table_buf = <<>>]

\* result["Filer_Information"] = _parse_table_blob(text); accumulating = False
Complete(st, text) ==
    [st EXCEPT !.result = Put(@, "Filer_Information", _parse_table_blob(text)),
               !.accumulating = FALSE]

\* The blob is over when more brackets were closed than opened.
CheckBalanceStrict(st, joined) ==
    IF NetBrackets(joined) < 0
    THEN Note(Complete(st, joined), "buffer", "none", TRUE)
    ELSE Note(st, "buffer", "none", FALSE)

\* The buffer is never parsed.
CheckBalanceNever(st, joined) == Note(st, "buffer", "none", FALSE)

\* The buffer is parsed after every append, balanced or not.
CheckBalanceEager(st, joined) ==
    IF NetBrackets(joined) <= 0
    THEN Note(Complete(st, joined), "buffer", "none", TRUE)
    ELSE Note([st EXCEPT !.result = Put(@, "Filer_Information", _parse_table_blob(joined))],
              "buffer", "none", FALSE)

\* Lines 110-113, with the buffer after the append and its lines joined.
CheckBalance(st, joined) ==
    IF NetBrackets(joined) <= 0
    THEN Note(Complete(st, joined), "buffer", "none", TRUE)
    ELSE Note(st, "buffer", "none", FALSE)

\* The brackets of the appended block alone decide whether the blob is over.
AccumulateDepthOfBlock(st, raw) ==
    IF NetBrackets(raw) <= 0
    THEN Note(Complete([st EXCEPT !.table_buf = Append(@, raw)],
                       JoinLines(Append(st.table_buf, raw))), "buffer", "none", TRUE)
    ELSE Note([st EXCEPT !.table_buf = Append(@, raw)], "buffer", "none", FALSE)

\* The block is appended stripped.
AccumulateStripped(st, raw) ==
    CheckBalance([st EXCEPT !.table_buf = Append(@, Strip(raw))],
                 JoinLines(Append(st.table_buf, Strip(raw))))

\* Lines 108-114: the block is appended to the buffer of the open blob.
Accumulate(st, raw) ==
    CheckBalance([st EXCEPT !.table_buf = Append(@, raw)], JoinLines(Append(st.table_buf, raw)))

\* Lines 120-138: the rule applied to the text before a glued header; low
\* is before.lower().
BeforeRuleOf(st, before, low) ==
    IF before = <<>> THEN "none"
    ELSE IF st.expect_name THEN "name_value"
    ELSE IF StartsWith(low, Chars("taxpayer identification number")) THEN "tin"
    ELSE IF Contains(low, Chars("calendar year ended")) THEN "calendar"
    ELSE IF StartsWith(low, Chars("amended")) THEN "amended"
    ELSE IF StartsWith(low, Chars("prior report bsa identifier")) THEN "bsa"
    ELSE IF StartsWith(low, Chars("reason if filing late")) THEN "reason"
    ELSE IF ReMatch(ReForm, before, TRUE).ok THEN "form"
    ELSE IF ReFullMatch(ReYear, before, FALSE).ok THEN "year"
    ELSE IF low = Chars("name") THEN "name_label"
    ELSE "none"

BeforeRule(st, before) == BeforeRuleOf(st, before, Lower(before))

\* The Form test comes before the test of the pending name.
LineRuleOfFormFirst(st, line, low) ==
    IF ReMatch(ReForm, line, TRUE).ok THEN "form"
    ELSE IF st.expect_name THEN "name_value"
    ELSE IF ReFullMatch(ReYear, line, FALSE).ok THEN "year"
    ELSE IF low = Chars("name") THEN "name_label"
    ELSE IF StartsWith(low, Chars("taxpayer identification number")) THEN "tin"
    ELSE IF Contains(low, Chars("calendar year ended")) THEN "calendar"
    ELSE IF StartsWith(low, Chars("amended")) THEN "amended"
    ELSE IF StartsWith(low, Chars("prior report bsa identifier")) THEN "bsa"
    ELSE IF StartsWith(low, Chars("reason if filing late")) THEN "reason"
    ELSE IF StartsWith(line, Chars("[[")) THEN "blob"
    ELSE "none"

\* The calendar test comes before the Form test.
LineRuleOfCalendarFirst(st, line, low) ==
    IF st.expect_name THEN "name_value"
    ELSE IF Contains(low, Chars("calendar year ended")) THEN "calendar"
    ELSE IF ReMatch(ReForm, line, TRUE).ok THEN "form"
    ELSE IF ReFullMatch(ReYear, line, FALSE).ok THEN "year"
    ELSE IF low = Chars("name") THEN "name_label"
    ELSE IF StartsWith(low, Chars("taxpayer identification number")) THEN "tin"
    ELSE IF StartsWith(low, Chars("amended")) THEN "amended"
    ELSE IF StartsWith(low, Chars("prior report bsa identifier")) THEN "bsa"
    ELSE IF StartsWith(low, Chars("reason if filing late")) THEN "reason"
    ELSE IF StartsWith(line, Chars("[[")) THEN "blob"
    ELSE "none"

\* Lines 153-169: the rule applied to a line without the header; low is
\* line.lower().
LineRuleOf(st, line, low) ==
    IF st.expect_name THEN "name_value"
    ELSE IF ReMatch(ReForm, line, TRUE).ok THEN "form"
    ELSE IF ReFullMatch(ReYear, line, FALSE).ok THEN "year"
    ELSE IF low = Chars("name") THEN "name_label"
    ELSE IF StartsWith(low, Chars("taxpayer identification number")) THEN "tin"
    ELSE IF Contains(low, Chars("calendar year ended")) THEN "calendar"
    ELSE IF StartsWith(low, Chars("amended")) THEN "amended"
    ELSE IF StartsWith(low, Chars("prior report bsa identifier")) THEN "bsa"
    ELSE IF StartsWith(low, Chars("reason if filing late")) THEN "reason"
    ELSE IF StartsWith(line, Chars("[[")) THEN "blob"
    ELSE "none"

LineRule(st, line) == LineRuleOf(st, line, Lower(line))

\* The assignment a field rule makes from the text it matched.
ApplyRule(st, rule, text) ==
    CASE rule = "name_value" ->
            [st EXCEPT !.result = Put(@, "Name", _clean(PyStr(text))), !.expect_name = FALSE]
      [] rule = "form" ->
            [st EXCEPT !.result = Put(@, "Form", Group(ReMatch(ReForm, text, TRUE), text, 1))]
      [] rule = "year" -> [st EXCEPT !.result = Put(@, "year", text)]
      [] rule = "name_label" -> [st EXCEPT !.expect_name = TRUE]
      [] rule = "tin" ->
            [st EXCEPT !.result = Put(@, "Taxpayer Identification Number", _after_colon(text))]
      [] rule = "calendar" ->
            [st EXCEPT !.result = Put(@, "calendar_year_ended", _calendar_ended(text))]
      [] rule = "amended" ->
            [st EXCEPT !.result = Put(@, "Amended", ReSearch(ReMark, text, FALSE).ok)]
      [] rule = "bsa" ->
            [st EXCEPT !.result = Put(@, "BSA_identifier", BlankIfPlaceholder(_after_colon(text)))]
      [] rule = "reason" ->
            [st EXCEPT !.result =
                Put(@, "Reason_if_filing_late", BlankIfPlaceholder(_after_colon(text)))]
      [] OTHER -> st

\* The blob is opened without a look at its brackets.
StartBlobAlwaysOpen(st, text) == [st EXCEPT !.table_buf = <<text>>, !.accumulating = TRUE]

\* A blob that starts with balanced brackets is left open.
StartBlobStrict(st, text) ==
    IF NetBrackets(text) < 0
    THEN Complete([st EXCEPT !.table_buf = <<text>>], text)
    ELSE [st EXCEPT !.table_buf = <<text>>, !.accumulating = TRUE]

\* Lines 142-146 and 170-172: a blob starts with text; it is parsed at once
\* when its brackets already balance.
StartBlob(st, text) ==
    IF NetBrackets(text) <= 0
    THEN Complete([st EXCEPT !.table_buf = <<text>>], text)
    ELSE [st EXCEPT !.table_buf = <<text>>, !.accumulating = TRUE]

\* Text after the header that does not start a blob is kept as the first
\* entry of the buffer.
AfterHeaderSeedsText(st, rule, trailing) ==
    IF StartsWith(trailing, Chars("[["))
    THEN Note(StartBlob(st, trailing), "header", rule, NetBrackets(trailing) <= 0)
    ELSE Note([st EXCEPT !.accumulating = TRUE,
                         !.table_buf = IF trailing = <<>> THEN <<>> ELSE <<trailing>>],
              "header", rule, FALSE)

\* A header without a blob after it leaves the buffer as it is.
AfterHeaderKeepsBuffer(st, rule, trailing) ==
    IF StartsWith(trailing, Chars("[["))
    THEN Note(StartBlob(st, trailing), "header", rule, NetBrackets(trailing) <= 0)
    ELSE Note([st EXCEPT !.accumulating = TRUE], "header", rule, FALSE)

\* Lines 140-149, after the rule of the text before the header was applied.
AfterHeader(st, rule, trailing) ==
    IF StartsWith(trailing, Chars("[["))
    THEN Note(StartBlob(st, trailing), "header", rule, NetBrackets(trailing) <= 0)
    ELSE Note([st EXCEPT !.accumulating = TRUE, !.table_buf = <<>>], "header", rule, FALSE)

\* Lines 119-149, with the text before and after the header.
SplitAt(st, before, rule, trailing) == AfterHeader(ApplyRule(st, rule, before), rule, trailing)

HeaderParts(st, before, trailing) == SplitAt(st, before, BeforeRule(st, before), trailing)

\* Lines 117-150: the line holds the header.
GluedHeader(st, line) ==
    HeaderParts(st, Strip(SplitOnce(line, Header)[1]), Strip(SplitOnce(line, Header)[2]))

\* Lines 153-173, with the rule that matched.
Classified(st, raw, line, rule) ==
    IF rule = "blob"
    THEN Note(StartBlob(st, raw), "line", rule, NetBrackets(raw) <= 0)
    ELSE Note(ApplyRule(st, rule, line), "line", rule, FALSE)

\* Lines 153-173: a line without the header.
NormalLine(st, raw, line) == Classified(st, raw, line, LineRule(st, line))

\* The header test comes before the test of accumulating.
BranchOfHeaderFirst(st, blk) ==
    IF ~IsInstanceStr(ContentOf(blk)) THEN "skip"
    ELSE IF ContentOf(blk).t # "str" THEN "raise"
    ELSE IF Strip(ContentOf(blk).v) = <<>> THEN "blank"
    ELSE IF Contains(Strip(ContentOf(blk).v), Header) THEN "header"
    ELSE IF st.accumulating THEN "buffer"
    ELSE "line"

\* The branch of the loop body a block takes (lines 98-117).  A content
\* that passes the isinstance test without being a str has no strip(): the
\* call raises.
BranchOf(st, blk) ==
    IF ~IsInstanceStr(ContentOf(blk)) THEN "skip"
    ELSE IF ContentOf(blk).t # "str" THEN "raise"
    ELSE IF Strip(ContentOf(blk).v) = <<>> THEN "blank"
    ELSE IF st.accumulating THEN "buffer"
    ELSE IF Contains(Strip(ContentOf(blk).v), Header) THEN "header"
    ELSE "line"

\* A block without a string closes the open blob and empties its buffer.
SkippedEndsBlob(st) ==
    Note([st EXCEPT !.accumulating = FALSE, !.table_buf = <<>>], "skip", "none", FALSE)

\* Lines 99-101: continue, with nothing assigned.
Skipped(st) == Note(st, "skip", "none", FALSE)

\* The loop body on a block that takes branch.
Body(st, blk, branch) ==
    CASE branch = "skip" -> Skipped(st)
      [] branch = "raise" -> [st EXCEPT !.raised = TRUE]
      [] branch = "blank" -> Note(st, "blank", "none", FALSE)
      [] branch = "buffer" -> Accumulate(st, ContentOf(blk).v)
      [] branch = "header" -> GluedHeader(st, Strip(ContentOf(blk).v))
      [] branch = "line" -> NormalLine(st, ContentOf(blk).v, Strip(ContentOf(blk).v))

\* One iteration of the loop (lines 98-173).
LoopBody(st, blk) == Body(st, blk, BranchOf(st, blk))

\* fi = result.setdefault("Filer_Information", {}): the new dict is kept.
NormalizeNestedCreates(result) ==
    Put(result, "Filer_Information",
        NormalizeInitials(IF "Filer_Information" \in DOMAIN result
                          THEN result["Filer_Information"] ELSE EmptyDict))

\* Lines 181-183: fi is the nested dict of result, or a new dict that is
\* dropped; the assignments to fi[k] reach result only in the first case.
NormalizeNested(result) ==
    IF "Filer_Information" \in DOMAIN result
    THEN Put(result, "Filer_Information", NormalizeInitials(result["Filer_Information"]))
    ELSE result

\* The default of Reason_if_filing_late is not set.
FinishTwoDefaults(result) ==
    NormalizeNested(SetDefault(SetDefault(result, "Amended", FALSE), "BSA_identifier", <<>>))

\* Lines 175-185: the mapping returned.
Finish(result) ==
    NormalizeNested(
        SetDefault(SetDefault(SetDefault(result, "Amended", FALSE), "BSA_identifier", <<>>),
                   "Reason_if_filing_late", <<>>))

\* The locals after the loop has run over blocks, from st.
RECURSIVE RunFrom(_, _)
RunFrom(st, blocks) ==
    IF blocks = <<>> \/ st.raised THEN st
    ELSE RunFrom(LoopBody(st, Head(blocks)), Tail(blocks))

\* parse_page3_blocks_resilient(blocks), when it returns
Parse(blocks) == Finish(RunFrom(FreshLocals, blocks).result)

\* ------------------------------------------------------------------ state

VARIABLES
    blocks,        \* blocks[i]: the argument page3_blocks of invocation i
    pc,            \* pc[i]: "start", "loop", "done" (returned) or "error" (raised)
    idx,           \* idx[i]: the position of the for loop in blocks[i]
    result,        \* the locals of lines 92-95, one set per call frame
    expect_name,
    accumulating,
    table_buf,
    fired,         \* fired[i]: what the loop did with each block so far
    ret            \* ret[i]: the mapping invocation i returned

vars == <<blocks, pc, idx, result, expect_name, accumulating, table_buf, fired, ret>>

\* Every invocation works on the locals of the first: module-level state.
FrameShared(i) == 1

\* The call frame that holds the locals of invocation i: its own.
Frame(i) == i

Locals(i) ==
    [result |-> result[Frame(i)], expect_name |-> expect_name[Frame(i)],
     accumulating |-> accumulating[Frame(i)], table_buf |-> table_buf[Frame(i)],
     raised |-> FALSE, fired |-> fired[i]]

\* The locals of invocation i become st.
Store(i, st) ==
    /\ result' = [result EXCEPT ![Frame(i)] = st.result]
    /\ expect_name' = [expect_name EXCEPT ![Frame(i)] = st.expect_name]
    /\ accumulating' = [accumulating EXCEPT ![Frame(i)] = st.accumulating]
    /\ table_buf' = [table_buf EXCEPT ![Frame(i)] = st.table_buf]
    /\ fired' = [fired EXCEPT ![i] = st.fired]

\* The block the loop of invocation i is at.
AtBlock(i) == pc[i] = "loop" /\ idx[i] <= Len(blocks[i])
Current(i) == blocks[i][idx[i]]

\* The argument lists of length at most maxlen over the blocks of cat.
Inputs(cat, maxlen) == UNION {[1 .. n -> cat] : n \in 0 .. maxlen}

InitWith(invs, cat, maxlen) ==
    /\ blocks \in [invs -> Inputs(cat, maxlen)]
    /\ pc = [i \in invs |-> "start"]
    /\ idx = [i \in invs |-> 1]
    /\ result = [i \in invs |-> EmptyDict]
    /\ expect_name = [i \in invs |-> FALSE]
    /\ accumulating = [i \in invs |-> FALSE]
    /\ table_buf = [i \in invs |-> <<>>]
    /\ fired = [i \in invs |-> <<>>]
    /\ ret = [i \in invs |-> EmptyDict]

\* Lines 91-95: the call creates its locals.
Call(i) ==
    /\ pc[i] = "start"
    /\ pc' = [pc EXCEPT ![i] = "loop"]
    /\ Store(i, FreshLocals)
    /\ UNCHANGED <<blocks, idx, ret>>

\* The locals of invocation i become st and the loop moves on, or the call
\* ends with the exception.
Advance(i, st) ==
    /\ Store(i, st)
    /\ pc' = [pc EXCEPT ![i] = IF st.raised THEN "error" ELSE "loop"]
    /\ idx' = [idx EXCEPT ![i] = IF st.raised THEN @ ELSE @ + 1]
    /\ UNCHANGED <<blocks, ret>>

\* The loop of invocation i is at a block that takes one of branches.
Takes(i, branches) == AtBlock(i) /\ BranchOf(Locals(i), Current(i)) \in branches

\* Lines 98-101: the content is not a string.
Skip(i) ==
    /\ Takes(i, {"skip", "raise"})
    /\ Advance(i, Body(Locals(i), Current(i), BranchOf(Locals(i), Current(i))))

\* Lines 103-105: the content is blank.
Blank(i) ==
    /\ Takes(i, {"blank"})
    /\ Advance(i, Note(Locals(i), "blank", "none", FALSE))

\* Lines 108-114: the block is buffer input.
Buffer(i) ==
    /\ Takes(i, {"buffer"})
    /\ Advance(i, Accumulate(Locals(i), ContentOf(Current(i)).v))

\* Lines 117-150: the block holds the header.
SplitHeader(i) ==
    /\ Takes(i, {"header"})
    /\ Advance(i, GluedHeader(Locals(i), Strip(ContentOf(Current(i)).v)))

\* Lines 153-173: the block is classified by the line rules.
Classify(i) ==
    /\ Takes(i, {"line"})
    /\ Advance(i, NormalLine(Locals(i), ContentOf(Current(i)).v, Strip(ContentOf(Current(i)).v)))

\* Lines 175-185: the loop is over; the defaults are set and result is returned.
Return(i) ==
    /\ pc[i] = "loop"
    /\ idx[i] > Len(blocks[i])
    /\ result' = [result EXCEPT ![Frame(i)] = Finish(@)]
    /\ ret' = [ret EXCEPT ![i] = result'[Frame(i)]]
    /\ pc' = [pc EXCEPT ![i] = "done"]
    /\ UNCHANGED <<blocks, idx, expect_name, accumulating, table_buf, fired>>

Next ==
    \/ \E i \in DOMAIN pc : Call(i)
    \/ \E i \in DOMAIN pc : Skip(i)
    \/ \E i \in DOMAIN pc : Blank(i)
    \/ \E i \in DOMAIN pc : Buffer(i)
    \/ \E i \in DOMAIN pc : SplitHeader(i)
    \/ \E i \in DOMAIN pc : Classify(i)
    \/ \E i \in DOMAIN pc : Return(i)

\* ------------------------------------------------------------------ inputs

Block(text) == [content |-> PyStr(text)]

\* A block without content, with content None, with a list of rows as content.
NoContent == EmptyDict
NullContent == [content |-> PyNone]
RowsContent == [content |-> PyList(<<>>)]

BlankLine == Block(Chars("  "))
NameLabel == Block(Chars("Name"))
HyphenLine == Block(Chars(" - "))
AmendedLine == Block(Chars("Amended [x]"))
BsaLine == Block(Chars("Prior report BSA Identifier: 77"))
FormLine == Block(Chars("Form 114"))
HeaderLine == Block(Header)

SingleLineBlob == Chars("[[\"Type of filer\",\"Individual\"]]")
CalendarBlob == Chars("[[\"calendar year ended 12/31/2020\"]]")
PlaceholderBlob == Chars("[[\"Middle initial\",\"-\"],[\"Suffix\",\"<empty>\"]]")
BlobPart1 == Chars("[[\"Type of filer\",\"Individual\",")
BlobPart2 == Chars("\"TIN\",\"123456789\",")
BlobPart2Labelled == Chars("\"U.S. Taxpayer Identification Number\",\"123456789\",")
BlobPart3 == Chars("\"TIN type\",\"SSN/ITIN\"]]")
HeaderCell == Chars("\"Part I - Filer Information\"]]")

\* The longest argument list.
MaxBlocks == 3

\* Field lines, placeholders and a one-line blob.
Catalogue ==
    { NullContent, BlankLine, NameLabel, HyphenLine, AmendedLine, BsaLine, HeaderLine,
      Block(PlaceholderBlob) }

\* Blocks without a string, in every mode of the engine.
SkipCatalogue ==
    { NoContent, NullContent, RowsContent, BlankLine, NameLabel, HeaderLine,
      Block(BlobPart1), Block(BlobPart3) }

\* One-line blobs and the line after them.
LineCatalogue ==
    { NullContent, BlankLine, HeaderLine, FormLine, Block(SingleLineBlob), Block(CalendarBlob) }

\* Blobs that span blocks.
BlobCatalogue ==
    { NullContent, BlankLine, Block(HeaderCell), NameLabel,
      Block(BlobPart1), Block(BlobPart2), Block(BlobPart2Labelled), Block(BlobPart3) }

Init == InitWith({1}, Catalogue, MaxBlocks)
Spec == Init /\ [][Next]_vars

InitSkip == InitWith({1}, SkipCatalogue, MaxBlocks)
SpecSkip == InitSkip /\ [][Next]_vars

InitLine == InitWith({1}, LineCatalogue, MaxBlocks)
SpecLine == InitLine /\ [][Next]_vars

InitBlob == InitWith({1}, BlobCatalogue, MaxBlocks)
SpecBlob == InitBlob /\ [][Next]_vars

\* A line for every rule of the classifier, lines that match two rules and
\* a line that matches none; a rule looks back one block at most.
MaxRuleBlocks == 2
YearLine == Block(Chars("2020"))
TinLine == Block(Chars("Taxpayer Identification Number: 12"))
FormCalendarLine == Block(Chars("Form 114 calendar year ended 12/31/2020"))
ReasonLine == Block(Chars("Reason if filing late: ill"))
OtherLine == Block(Chars("Other"))

RuleCatalogue ==
    { NullContent, BlankLine, HeaderLine, NameLabel, FormLine, YearLine, TinLine,
      FormCalendarLine, AmendedLine, BsaLine, ReasonLine, Block(CalendarBlob),
      Block(SingleLineBlob), OtherLine }

InitRules == InitWith({1}, RuleCatalogue, MaxRuleBlocks)
SpecRules == InitRules /\ [][Next]_vars

\* The label Name and what may follow it: a value, a placeholder, a line of
\* another rule, the header alone and the header glued to a value.
GluedValue == Chars("Ann Lee Part I - Filer Information")
NameCatalogue ==
    { NullContent, BlankLine, NameLabel, HyphenLine, FormLine, HeaderLine, Block(GluedValue) }

InitName == InitWith({1}, NameCatalogue, MaxBlocks)
SpecName == InitName /\ [][Next]_vars

\* Blobs with the checkboxes of items 14a and 14b: as rows of a table, as
\* text without rows, and a blob without them.
CheckboxRows == Chars("[[\"14a\"],[\"Yes\",\" [x] \"],[\"14b\"],[\"No\",\" [X] \"]]")
CheckboxText == Chars("14a [\"Yes\",\" [x] \"] 14b [\"No\",\" [X] \"]")
CheckboxCatalogue ==
    { NullContent, BlankLine, HeaderLine, Block(CheckboxRows), Block(CheckboxText),
      Block(SingleLineBlob) }

InitCheckbox == InitWith({1}, CheckboxCatalogue, MaxBlocks)
SpecCheckbox == InitCheckbox /\ [][Next]_vars

\* Blobs with a foreign identification: a type, a number and a placeholder
\* as country; a placeholder as number alone.
ForeignBlob ==
    Chars("[[\"4a Type Passport\"],[\"4b Number\",\"123\"],[\"4c Country of Issue\",\"-\"]]")
ForeignPlaceholderBlob == Chars("[[\"4b Number\",\"<empty>\"]]")
ForeignCatalogue ==
    { NullContent, BlankLine, HeaderLine, Block(ForeignBlob), Block(ForeignPlaceholderBlob),
      Block(SingleLineBlob) }

InitForeign == InitWith({1}, ForeignCatalogue, MaxBlocks)
SpecForeign == InitForeign /\ [][Next]_vars

\* The values given to _clean: every text of at most MaxCleanLen characters
\* out of a space, a hyphen, a letter and the em-dash, and the longer
\* placeholder tokens, bare and padded.
MaxCleanLen == 3
CleanAlphabet == {" ", "-", "a", "U+2014"}
CleanValues ==
    UNION {[1 .. n -> CleanAlphabet] : n \in 0 .. MaxCleanLen}
        \cup { Chars("<empty>"), Chars(" <empty>\t"), Chars("<empty"), Chars("\\u2014"),
               Chars("\\u2014 "), EmDashMisdecoded, <<" ">> \o EmDashMisdecoded }

\* A value reaches _clean as the line after the label Name (line 154); one
\* more argument list goes through the other branches of the loop.
CleanArguments ==
    {<<NameLabel, Block(v)>> : v \in CleanValues}
        \cup {<<NullContent, BlankLine, HeaderLine, BsaLine>>}

InitOver(invs, arguments) ==
    /\ blocks \in [invs -> arguments]
    /\ pc = [i \in invs |-> "start"]
    /\ idx = [i \in invs |-> 1]
    /\ result = [i \in invs |-> EmptyDict]
    /\ expect_name = [i \in invs |-> FALSE]
    /\ accumulating = [i \in invs |-> FALSE]
    /\ table_buf = [i \in invs |-> <<>>]
    /\ fired = [i \in invs |-> <<>>]
    /\ ret = [i \in invs |-> EmptyDict]

InitClean == InitOver({1}, CleanArguments)
SpecClean == InitClean /\ [][Next]_vars

\* Two invocations whose steps interleave: a page, and the reproducer's
\* call with at most one block.
MaxPairBlocks == 2
PairCatalogue == { NullContent, BlankLine, HeaderLine, NameLabel }

InitPair ==
    /\ InitWith({1, 2}, PairCatalogue, MaxPairBlocks)
    /\ Len(blocks[2]) <= 1

SpecPair == InitPair /\ [][Next]_vars

\* A blob met in parts, one of them padded and of two lines, with blank and
\* non-string blocks between the parts.
PaddedPart == Chars("  \"TIN type\",") \o <<"\n">> \o Chars("\"EIN\",  ")
AppendCatalogue ==
    { NullContent, BlankLine, HeaderLine, Block(BlobPart1), Block(PaddedPart), Block(BlobPart3) }

InitAppend == InitWith({1}, AppendCatalogue, MaxBlocks)
SpecAppend == InitAppend /\ [][Next]_vars

\* Blocks with text glued before the header: a value, a year, and a fragment
\* that two field rules match.
MaxGluedBlocks == 2
GluedYear == Chars("2020 Part I - Filer Information")
GluedFormCalendar == Chars("Form 114 calendar year ended 12/31/2020 Part I - Filer Information")
GluedCatalogue ==
    { NullContent, BlankLine, NameLabel, FormLine, HeaderLine, Block(GluedValue),
      Block(GluedYear), Block(GluedFormCalendar) }

InitGlued == InitWith({1}, GluedCatalogue, MaxGluedBlocks)
SpecGlued == InitGlued /\ [][Next]_vars

\* The header with a blob of one line after it, with the start of a blob
\* after it, with other text after it, and alone.
HeaderThenBlob == Header \o Chars(" ") \o SingleLineBlob
HeaderThenPart1 == Header \o Chars("  ") \o BlobPart1 \o Chars(" ")
HeaderThenText == Header \o Chars(" see below")
AfterCatalogue ==
    { NullContent, BlankLine, HeaderLine, FormLine, Block(HeaderThenBlob),
      Block(HeaderThenPart1), Block(HeaderThenText), Block(BlobPart3) }

InitAfter == InitWith({1}, AfterCatalogue, MaxBlocks)
SpecAfter == InitAfter /\ [][Next]_vars

\* Two invocations, each given a blob with the checkboxes as rows: the blobs
\* are the same up to the 14b marker and differ in the cell after it.
CheckboxRowsUnchecked == Chars("[[\"14a\"],[\"Yes\",\" [x] \"],[\"14b\"],[\"No\",\" [ ] \"]]")
CheckboxPairCatalogue ==
    { NullContent, BlankLine, HeaderLine, Block(CheckboxRows), Block(CheckboxRowsUnchecked) }

InitCheckboxPair ==
    /\ InitWith({1, 2}, CheckboxPairCatalogue, MaxPairBlocks)
    /\ Len(blocks[2]) <= 1

SpecCheckboxPair == InitCheckboxPair /\ [][Next]_vars

\* Blobs with the checkboxes of item 14b alone: Yes checked, No checked.
SignAuthYes == Chars("[[\"14b\"],[\"Yes\",\" [x] \"],[\"No\",\" [ ] \"]]")
SignAuthNo == Chars("[[\"14b\"],[\"Yes\",\" [ ] \"],[\"No\",\" [x] \"]]")
SignAuthCatalogue ==
    { NullContent, BlankLine, HeaderLine, Block(SignAuthYes), Block(SignAuthNo),
      Block(SingleLineBlob) }

InitSignAuth == InitWith({1}, SignAuthCatalogue, MaxBlocks)
SpecSignAuth == InitSignAuth /\ [][Next]_vars

\* Lines of the calendar rule: with a date, with a month and day alone, and
\* without either.
CalendarDated == Chars("calendar year ended 12/31/2020")
CalendarMonthDay == Chars("calendar year ended 12/31")
CalendarUndated == Chars("calendar year ended soon")
CalendarCatalogue ==
    { NullContent, BlankLine, HeaderLine, Block(CalendarDated), Block(CalendarMonthDay),
      Block(CalendarUndated) }

InitCalendar == InitWith({1}, CalendarCatalogue, MaxBlocks)
SpecCalendar == InitCalendar /\ [][Next]_vars

\* Lines of the amended rule: with a mark in either case, with the
\* checked-box glyph, with the checkmark glyph, and without a mark.
AmendedUpper == Chars("amended [X]")
AmendedBox == Chars("Amended ") \o <<"[", "U+2611", "]">>
AmendedCheck == Chars("Amended ") \o <<"[", "U+2713", "]">>
AmendedBare == Chars("Amended [ ]")
AmendedCatalogue ==
    { NullContent, BlankLine, HeaderLine, AmendedLine, Block(AmendedUpper), Block(AmendedBox),
      Block(AmendedCheck), Block(AmendedBare) }

InitAmended == InitWith({1}, AmendedCatalogue, MaxBlocks)
SpecAmended == InitAmended /\ [][Next]_vars

\* Lines of the amended rule with and without a mark, two blobs with
\* different fields, and a block with an amended line, the header and a blob.
AmendedThenBlob == Chars("Amended ") \o Header \o Chars(" ") \o SingleLineBlob
WriteCatalogue ==
    { NullContent, BlankLine, HeaderLine, AmendedLine, Block(AmendedBare),
      Block(SingleLineBlob), Block(ForeignBlob), Block(AmendedThenBlob) }

InitWrites == InitWith({1}, WriteCatalogue, MaxBlocks)
SpecWrites == InitWrites /\ [][Next]_vars

\* ------------------------------------------------------------------ properties

Done(i) == pc[i] = "done"
RuleFired(i, rule) == \E j \in 1 .. Len(fired[i]) : fired[i][j].rule = rule
BranchTaken(i, branch) == \E j \in 1 .. Len(fired[i]) : fired[i][j].branch = branch
BlobCompleted(i) == \E j \in 1 .. Len(fired[i]) : fired[i][j].completed
LastFired(i) == fired[i][Len(fired[i])]

Defaulted == {"Amended", "BSA_identifier", "Reason_if_filing_late"}
Detected == {"Name", "Form", "year", "Taxpayer Identification Number", "calendar_year_ended"}

RuleOfKey(k) ==
    CASE k = "Name" -> "name_value"
      [] k = "Form" -> "form"
      [] k = "year" -> "year"
      [] k = "Taxpayer Identification Number" -> "tin"
      [] k = "calendar_year_ended" -> "calendar"

\* The content of the block the loop is at is a string / its text.
AtText(i) == AtBlock(i) /\ ContentOf(Current(i)).t = "str"
TextAt(i) == ContentOf(Current(i)).v

\* C1: the mapping returned always holds Amended, BSA_identifier and
\* Reason_if_filing_late, also for the empty input and for an input that ends
\* inside a blob; Amended is a boolean and the other two are strings; each has
\* its default (false, "", "") unless a line matching its rule was classified.
C1_DefaultsPresent ==
    \A i \in DOMAIN pc : Done(i) =>
        /\ Defaulted \subseteq DOMAIN ret[i]
        /\ ret[i]["Amended"] \in BOOLEAN
        /\ Len(ret[i]["BSA_identifier"]) \in Nat
        /\ Len(ret[i]["Reason_if_filing_late"]) \in Nat
        /\ ~RuleFired(i, "amended") => ret[i]["Amended"] = FALSE
        /\ ~RuleFired(i, "bsa") => ret[i]["BSA_identifier"] = <<>>
        /\ ~RuleFired(i, "reason") => ret[i]["Reason_if_filing_late"] = <<>>

\* An input that sets Amended and the BSA identifier and ends inside a blob.
C1_Witness ==
    /\ Done(1) /\ accumulating[1]
    /\ RuleFired(1, "amended") /\ ret[1]["Amended"] = TRUE
    /\ RuleFired(1, "bsa") /\ ret[1]["BSA_identifier"] = Chars("77")
    /\ ~RuleFired(1, "reason") /\ ret[1]["Reason_if_filing_late"] = <<>>

\* Every content is a string, null or absent.
InputContract(i) ==
    \A j \in 1 .. Len(blocks[i]) : ContentOf(blocks[i][j]).t \in {"str", "NoneType"}

\* The guard of a step of invocation i that does not raise.
CanStep(i) ==
    \/ pc[i] = "start"
    \/ pc[i] = "loop" /\ ~AtBlock(i)
    \/ Takes(i, {"skip", "blank", "buffer", "header", "line"})

\* C2: on an input within the contract the call never raises, whatever the
\* blocks hold and whatever mode the engine is in; the loop has examined each
\* block before its position exactly once and no other; a call that has not
\* returned can take a step; a call that returned has examined every block
\* and returned a mapping.
C2_SinglePass ==
    \A i \in DOMAIN pc : InputContract(i) =>
        /\ pc[i] \in {"start", "loop", "done"}
        /\ idx[i] \in 1 .. Len(blocks[i]) + 1
        /\ pc[i] = "start" => idx[i] = 1
        /\ pc[i] # "start" => Len(fired[i]) = idx[i] - 1
        /\ ~Done(i) => CanStep(i)
        /\ Done(i) =>
              /\ idx[i] = Len(blocks[i]) + 1
              /\ Defaulted \subseteq DOMAIN ret[i]
              /\ DOMAIN ret[i] \subseteq Defaulted \cup Detected \cup {"Filer_Information"}

\* A pass that went through a header, a skipped block and a buffered one.
C2_Witness ==
    /\ Done(1) /\ InputContract(1) /\ Len(blocks[1]) = 3
    /\ BranchTaken(1, "header") /\ BranchTaken(1, "skip") /\ BranchTaken(1, "buffer")

\* The block the loop is at is a one-line blob met in the Idle mode, with no
\* name expected.
IdleSingleLine(i) ==
    /\ AtText(i) /\ ~accumulating[i] /\ ~expect_name[i]
    /\ StartsWith(Strip(TextAt(i)), Chars("[["))
    /\ NetBrackets(Strip(TextAt(i))) <= 0

\* The step parses the block the loop is at, stores the parse and leaves
\* the engine Idle.
ParsedAtOnce(i) ==
    /\ pc'[i] = "loop" /\ idx'[i] = idx[i] + 1
    /\ "Filer_Information" \in DOMAIN result'[i]
    /\ result'[i]["Filer_Information"] = _parse_table_blob(TextAt(i))
    /\ ~accumulating'[i]

\* A string block that is not blank, met when no blob is open, is not
\* appended to the buffer: it goes to the line rules, through the header
\* split when it holds the header.
ClassifiedWhenIdle(i) ==
    (AtText(i) /\ ~accumulating[i] /\ Strip(TextAt(i)) # <<>>) =>
        /\ pc'[i] = "loop"
        /\ LastFired(i)'.branch =
              IF Contains(Strip(TextAt(i)), Header) THEN "header" ELSE "line"

\* C3, as the claim states it: every one-line blob met in the Idle mode with
\* no name expected is parsed at once and stored under Filer_Information.
C3_Original == [][\A i \in DOMAIN pc : IdleSingleLine(i) => ParsedAtOnce(i)]_vars

\* C3, amended: a one-line blob met in the Idle mode with no name expected,
\* whose text holds neither the header nor "calendar year ended" in any case,
\* is parsed at once, its parse is stored under Filer_Information and the
\* engine is Idle afterwards, so that the next block goes to the line rules
\* and not to a buffer; for [["Type of filer","Individual"]] the parse has
\* Type_of_filer = "Individual".
C3_SingleLineBlob ==
    [][\A i \in DOMAIN pc :
          /\ ( /\ IdleSingleLine(i)
               /\ ~Contains(TextAt(i), Header)
               /\ ~Contains(Lower(TextAt(i)), Chars("calendar year ended")) )
                => ParsedAtOnce(i)
          /\ (IdleSingleLine(i) /\ TextAt(i) = SingleLineBlob)
                => result'[i]["Filer_Information"]["Type_of_filer"] = Chars("Individual")
          /\ ClassifiedWhenIdle(i)]_vars

\* The one-line blob was parsed and the line after it set the form number.
C3_Witness ==
    /\ pc[1] = "loop" /\ idx[1] = 3
    /\ blocks[1][1] = Block(SingleLineBlob) /\ blocks[1][2] = FormLine
    /\ fired[1][1] = [branch |-> "line", rule |-> "blob", completed |-> TRUE]
    /\ fired[1][2].rule = "form"
    /\ ~accumulating[1]
    /\ result[1]["Filer_Information"]["Type_of_filer"] = Chars("Individual")
    /\ result[1]["Form"] = Chars("114")

\* The blocks a .. b of blks deliver a blob: strings that are not blank, the
\* first starting with [[, the brackets open after every proper prefix and
\* balanced after the whole.
TextsOf(blks, a, b) == [j \in 1 .. b - a + 1 |-> ContentOf(blks[a + j - 1]).v]
IsBlobRun(blks, a, b) ==
    /\ \A j \in a .. b :
          /\ ContentOf(blks[j]).t = "str"
          /\ Strip(ContentOf(blks[j]).v) # <<>>
    /\ StartsWith(Strip(ContentOf(blks[a]).v), Chars("[["))
    /\ \A m \in a .. b - 1 : NetBrackets(JoinLines(TextsOf(blks, a, m))) > 0
    /\ NetBrackets(JoinLines(TextsOf(blks, a, b))) <= 0

\* The loop reaches block a of blks in the Idle mode with no name expected.
IdleBefore(blks, a) ==
    /\ ~RunFrom(FreshLocals, SubSeq(blks, 1, a - 1)).accumulating
    /\ ~RunFrom(FreshLocals, SubSeq(blks, 1, a - 1)).expect_name

\* blks with the blocks a .. b delivered as one block, joined by newlines.
AsOneBlock(blks, a, b) ==
    SubSeq(blks, 1, a - 1) \o <<Block(JoinLines(TextsOf(blks, a, b)))>>
        \o SubSeq(blks, b + 1, Len(blks))

Runs(blks) == {r \in (1 .. Len(blks)) \X (1 .. Len(blks)) : r[1] < r[2]}

\* C4, as the claim states it: a blob delivered as two or more blocks, met
\* in the Idle mode, gives the mapping its text gives as one block.
C4_Original ==
    \A i \in DOMAIN pc : Done(i) =>
        \A r \in Runs(blocks[i]) :
            (IsBlobRun(blocks[i], r[1], r[2]) /\ IdleBefore(blocks[i], r[1]))
                => ret[i] = Parse(AsOneBlock(blocks[i], r[1], r[2]))

\* C4, amended: a blob delivered as two or more blocks, met in the Idle mode
\* with no name expected, whose joined text holds neither the header nor
\* "calendar year ended" in any case, gives the mapping its text gives as
\* one block with the contents joined by newlines.
C4_MultiBlockEquivalence ==
    \A i \in DOMAIN pc : Done(i) =>
        \A r \in Runs(blocks[i]) :
            ( /\ IsBlobRun(blocks[i], r[1], r[2])
              /\ IdleBefore(blocks[i], r[1])
              /\ ~Contains(JoinLines(TextsOf(blocks[i], r[1], r[2])), Header)
              /\ ~Contains(Lower(JoinLines(TextsOf(blocks[i], r[1], r[2]))),
                           Chars("calendar year ended")) )
                => ret[i] = Parse(AsOneBlock(blocks[i], r[1], r[2]))

\* A blob in three blocks gave what its joined text gives.
C4_Witness ==
    /\ Done(1)
    /\ blocks[1] = <<Block(BlobPart1), Block(BlobPart2Labelled), Block(BlobPart3)>>
    /\ IsBlobRun(blocks[1], 1, 3)
    /\ BlobCompleted(1)
    /\ ret[1] = Parse(AsOneBlock(blocks[1], 1, 3))
    /\ ret[1]["Filer_Information"]["TIN_TYPE"] = Chars("SSN/ITIN")

ThreeBlocks == <<Block(BlobPart1), Block(BlobPart2), Block(BlobPart3)>>
ThreeBlocksLabelled == <<Block(BlobPart1), Block(BlobPart2Labelled), Block(BlobPart3)>>

\* C5, as the claim states it: the three blocks give TIN = "123456789".
C5_Original ==
    \A i \in DOMAIN pc : (Done(i) /\ blocks[i] = ThreeBlocks) =>
        /\ "Filer_Information" \in DOMAIN ret[i]
        /\ ret[i]["Filer_Information"]["TIN"] = Chars("123456789")

\* C5, amended: the three blocks give a Filer_Information with TIN = "",
\* TIN_TYPE = "SSN/ITIN" and Type_of_filer = "Individual", the cell labelled
\* "TIN" not being the one the parser reads; with the second block labelled
\* "U.S. Taxpayer Identification Number" they give TIN = "123456789".
C5_TinLabel ==
    \A i \in DOMAIN pc : Done(i) =>
        /\ blocks[i] = ThreeBlocks =>
              /\ "Filer_Information" \in DOMAIN ret[i]
              /\ ret[i]["Filer_Information"]["TIN"] = <<>>
              /\ ret[i]["Filer_Information"]["TIN_TYPE"] = Chars("SSN/ITIN")
              /\ ret[i]["Filer_Information"]["Type_of_filer"] = Chars("Individual")
        /\ blocks[i] = ThreeBlocksLabelled =>
              /\ "Filer_Information" \in DOMAIN ret[i]
              /\ ret[i]["Filer_Information"]["TIN"] = Chars("123456789")

\* The three blocks were parsed as one blob.
C5_Witness ==
    /\ Done(1) /\ blocks[1] = ThreeBlocks
    /\ fired[1][3] = [branch |-> "buffer", rule |-> "none", completed |-> TRUE]
    /\ ret[1]["Filer_Information"]["TIN"] = <<>>
    /\ ret[1]["Filer_Information"]["TIN_TYPE"] = Chars("SSN/ITIN")

\* The placeholder tokens other than the empty string.
PlaceholderTokens ==
    { Chars("<empty>"), Chars("-"), Chars("\\u2014"),
      <<"U+2014">>, <<"U+201A", "U+00C4", "U+00EE">> }

TopStrings == Detected \cup {"BSA_identifier", "Reason_if_filing_late"}
NotStrings == {"FINANCIAL_Interest_accounts", "Sign_Auth_no_interest", "Foreign_identification"}

NoPlaceholderIn(d, keys) == \A k \in keys \cap DOMAIN d : d[k] \notin PlaceholderTokens

\* C6: no string of the mapping returned is a placeholder token other than
\* the empty string: not at the top level, not in Filer_Information
\* (Middle_Initial and Suffix among its fields) and not in its
\* Foreign_identification.
C6_NoPlaceholder ==
    \A i \in DOMAIN pc : Done(i) =>
        /\ NoPlaceholderIn(ret[i], TopStrings)
        /\ "Filer_Information" \in DOMAIN ret[i] =>
              /\ NoPlaceholderIn(ret[i]["Filer_Information"],
                                 DOMAIN ret[i]["Filer_Information"] \ NotStrings)
              /\ "Foreign_identification" \in DOMAIN ret[i]["Filer_Information"] =>
                    NoPlaceholderIn(
                        ret[i]["Filer_Information"]["Foreign_identification"],
                        DOMAIN ret[i]["Filer_Information"]["Foreign_identification"])

\* A name, a middle initial and a suffix given as placeholders came out empty.
C6_Witness ==
    /\ Done(1)
    /\ blocks[1] = <<NameLabel, HyphenLine, Block(PlaceholderBlob)>>
    /\ ret[1]["Name"] = <<>>
    /\ ret[1]["Filer_Information"]["Middle_Initial"] = <<>>
    /\ ret[1]["Filer_Information"]["Suffix"] = <<>>

\* C7: apart from the three defaulted keys, a top-level key is in the mapping
\* returned only if a block matched its rule; Filer_Information is in it
\* exactly if a blob reached bracket balance, so the last normalization never
\* creates it; the empty input returns exactly the three defaults.
C7_OnlyDetected ==
    \A i \in DOMAIN pc : Done(i) =>
        /\ DOMAIN ret[i] \subseteq Defaulted \cup Detected \cup {"Filer_Information"}
        /\ \A k \in Detected \cap DOMAIN ret[i] : RuleFired(i, RuleOfKey(k))
        /\ ("Filer_Information" \in DOMAIN ret[i]) <=> BlobCompleted(i)
        /\ blocks[i] = <<>> =>
              /\ DOMAIN ret[i] = Defaulted
              /\ ret[i]["Amended"] = FALSE
              /\ ret[i]["BSA_identifier"] = <<>>
              /\ ret[i]["Reason_if_filing_late"] = <<>>

\* A name was detected and a blob was opened that never completed.
C7_Witness ==
    /\ Done(1) /\ accumulating[1] /\ ~BlobCompleted(1)
    /\ "Name" \in DOMAIN ret[1]
    /\ "Filer_Information" \notin DOMAIN ret[1]
    /\ DOMAIN ret[1] = Defaulted \cup {"Name"}

\* C8: invocations are isolated: no step changes the blocks given, and an
\* invocation that returns, however its steps interleaved with those of
\* another, returns the mapping its own blocks give in a call run alone.
C8_Isolated ==
    [][ /\ blocks' = blocks
        /\ \A i \in DOMAIN pc : pc'[i] = "done" => ret'[i] = Parse(blocks[i]) ]_vars

\* Both invocations returned, and only the first detected a name.
C8_Witness ==
    /\ Done(1) /\ Done(2)
    /\ blocks[1] = <<NameLabel, NameLabel>> /\ blocks[2] = <<HeaderLine>>
    /\ ret[1]["Name"] = Chars("Name")
    /\ "Name" \notin DOMAIN ret[2]

\* C9: a block whose content is missing, null or not a string is skipped:
\* the loop moves to the next block and result, the flag that a name is
\* expected, the flag that a blob is open and the buffer keep their values,
\* in every mode.
C9_SkipNoChange ==
    [][\A i \in DOMAIN pc :
          (AtBlock(i) /\ ContentOf(Current(i)).t # "str") =>
              /\ pc'[i] = "loop" /\ idx'[i] = idx[i] + 1
              /\ result'[i] = result[i]
              /\ expect_name'[i] = expect_name[i]
              /\ accumulating'[i] = accumulating[i]
              /\ table_buf'[i] = table_buf[i]]_vars

\* A list of rows was skipped inside an open blob.
C9_WitnessAccumulating ==
    /\ pc[1] = "loop" /\ idx[1] > 1
    /\ blocks[1][idx[1] - 1] = RowsContent
    /\ LastFired(1).branch = "skip"
    /\ accumulating[1] /\ table_buf[1] = <<BlobPart1>>

SameFilerInformation(d, e) ==
    /\ ("Filer_Information" \in DOMAIN d) <=> ("Filer_Information" \in DOMAIN e)
    /\ "Filer_Information" \in DOMAIN d => d["Filer_Information"] = e["Filer_Information"]

\* C10: an open blob gives nothing before its brackets balance: the step that
\* opens it leaves Filer_Information as it was, a block buffered without
\* balance changes no field and raises nothing, and a return with the blob
\* open adds only the missing defaults to result, so that a
\* Filer_Information in the mapping is the one of an earlier completed blob.
C10_UnterminatedDropped ==
    [][\A i \in DOMAIN pc :
          /\ (AtBlock(i) /\ ~accumulating[i] /\ accumulating'[i]) =>
                SameFilerInformation(result[i], result'[i])
          /\ (AtBlock(i) /\ accumulating[i] /\ accumulating'[i]) =>
                /\ pc'[i] = "loop"
                /\ result'[i] = result[i]
                /\ expect_name'[i] = expect_name[i]
          /\ (pc[i] = "loop" /\ ~AtBlock(i) /\ accumulating[i]) =>
                /\ pc'[i] = "done"
                /\ DOMAIN ret'[i] = DOMAIN result[i] \cup Defaulted
                /\ \A k \in DOMAIN result[i] : ret'[i][k] = result[i][k]
                /\ SameFilerInformation(result[i], ret'[i])]_vars

\* The input ended inside a second blob; the first one is in the mapping.
C10_Witness ==
    /\ Done(1) /\ accumulating[1]
    /\ blocks[1] = <<Block(BlobPart1), Block(BlobPart3), Block(BlobPart1)>>
    /\ table_buf[1] = <<BlobPart1>>
    /\ ret[1]["Filer_Information"]["TIN_TYPE"] = Chars("SSN/ITIN")
    /\ DOMAIN ret[1] = Defaulted \cup {"Filer_Information"}

\* The rules of the classifier in their order, 11 standing for no rule.
RuleNames ==
    <<"name_value", "form", "year", "name_label", "tin", "calendar", "amended", "bsa",
      "reason", "blob", "none">>

\* Rule n matches line when a name is expected or not.
MatchesRule(n, line, expecting) ==
    CASE n = 1 -> expecting
      [] n = 2 -> ReMatch(ReForm, line, TRUE).ok
      [] n = 3 -> Len(line) = 4 /\ \A j \in 1 .. 4 : line[j] \in Digits
      [] n = 4 -> Lower(line) = Chars("name")
      [] n = 5 -> StartsWith(Lower(line), Chars("taxpayer identification number"))
      [] n = 6 -> Contains(Lower(line), Chars("calendar year ended"))
      [] n = 7 -> StartsWith(Lower(line), Chars("amended"))
      [] n = 8 -> StartsWith(Lower(line), Chars("prior report bsa identifier"))
      [] n = 9 -> StartsWith(Lower(line), Chars("reason if filing late"))
      [] n = 10 -> StartsWith(line, Chars("[["))
      [] n = 11 -> TRUE

FirstRule(line, expecting) ==
    CHOOSE n \in 1 .. 11 :
        /\ MatchesRule(n, line, expecting)
        /\ \A m \in 1 .. n - 1 : ~MatchesRule(m, line, expecting)

\* The keys rule n writes.
KeysOfRule(n) ==
    CASE n = 1 -> {"Name"}
      [] n = 2 -> {"Form"}
      [] n = 3 -> {"year"}
      [] n = 5 -> {"Taxpayer Identification Number"}
      [] n = 6 -> {"calendar_year_ended"}
      [] n = 7 -> {"Amended"}
      [] n = 8 -> {"BSA_identifier"}
      [] n = 9 -> {"Reason_if_filing_late"}
      [] n = 10 -> {"Filer_Information"}
      [] OTHER -> {}

\* d and e hold the same keys with the same values, keys aside.
SameExcept(d, e, keys) ==
    /\ DOMAIN d \ keys = DOMAIN e \ keys
    /\ \A k \in DOMAIN d \ keys : d[k] = e[k]

\* The step of invocation i applies rule n to the block the loop is at and
\* no other rule.
OnlyRule(i, n) ==
    /\ pc'[i] = "loop"
    /\ LastFired(i)'.branch = "line"
    /\ LastFired(i)'.rule = RuleNames[n]
    /\ SameExcept(result[i], result'[i], KeysOfRule(n))
    /\ KeysOfRule(n) \subseteq DOMAIN result'[i]
    /\ expect_name'[i] = (n = 4)
    /\ n # 10 => (~accumulating'[i] /\ table_buf'[i] = table_buf[i])
    /\ n = 11 => result'[i] = result[i]

\* The block the loop is at is a line for the classifier: a string that is
\* not blank and does not hold the header, met with no blob open.
IdleLine(i) ==
    /\ AtText(i) /\ ~accumulating[i]
    /\ Strip(TextAt(i)) # <<>>
    /\ ~Contains(Strip(TextAt(i)), Header)

\* C11: first match wins: a line for the classifier has the first rule that
\* matches it applied, in the order pending name, Form, year, name label,
\* taxpayer identification number, calendar year ended, amended, BSA
\* identifier, reason, blob start, and no later rule; a line that matches no
\* rule changes nothing.
C11_FirstMatchWins ==
    [][\A i \in DOMAIN pc :
          IdleLine(i) => OnlyRule(i, FirstRule(Strip(TextAt(i)), expect_name[i]))]_vars

\* A line that matches the Form rule and the calendar rule set the form only.
C11_Witness ==
    /\ pc[1] = "loop" /\ idx[1] = 2 /\ blocks[1][1] = FormCalendarLine
    /\ LastFired(1).rule = "form"
    /\ result[1]["Form"] = Chars("114")
    /\ DOMAIN result[1] = {"Form"}

\* The entries of fired[i] for blocks that were not skipped as blank or as
\* holding no string.
NonEmptyFired(i) == {j \in 1 .. Len(fired[i]) : fired[i][j].branch \notin {"skip", "blank"}}

\* The last block of invocation i that was not empty was the label Name,
\* classified as such, and the loop is at the next block that is not empty.
AfterNameLabel(i) ==
    /\ AtText(i) /\ Strip(TextAt(i)) # <<>>
    /\ NonEmptyFired(i) # {}
    /\ fired[i][Largest(NonEmptyFired(i))].branch = "line"
    /\ fired[i][Largest(NonEmptyFired(i))].rule = "name_label"

\* text, trimmed, with a placeholder token turned into the empty string.
Normalized(text) == IF Strip(text) \in PlaceholderTokens THEN <<>> ELSE Strip(text)

\* The step of invocation i stores value as the name, clears the flag and
\* writes no other key.
NameConsumed(i, value) ==
    /\ "Name" \in DOMAIN result'[i]
    /\ result'[i]["Name"] = value
    /\ ~expect_name'[i]
    /\ SameExcept(result[i], result'[i], {"Name"})

\* C12, as the claim states it: the next block that is not empty after the
\* label Name has its trimmed, normalized content stored in Name, clears the
\* flag and has no other rule applied.
C12_Original ==
    [][\A i \in DOMAIN pc :
          AfterNameLabel(i) =>
              /\ NameConsumed(i, Normalized(TextAt(i)))
              /\ ~accumulating'[i] /\ table_buf'[i] = table_buf[i]]_vars

\* C12, amended: after the label Name set the flag, blank blocks and blocks
\* without a string leave it set; the next block that is not empty and does
\* not hold the header has its trimmed, normalized content stored in Name,
\* clears the flag and has no other rule applied; a next block that holds the
\* header has the text before the header, trimmed and normalized, stored in
\* Name and the flag cleared when that text is not empty, leaves the flag set
\* and Name unwritten when it is empty, and opens a blob either way.
C12_NameOnNextLine ==
    [][\A i \in DOMAIN pc :
          /\ (AfterNameLabel(i) /\ ~Contains(TextAt(i), Header)) =>
                /\ NameConsumed(i, Normalized(TextAt(i)))
                /\ ~accumulating'[i] /\ table_buf'[i] = table_buf[i]
          /\ ( /\ AfterNameLabel(i) /\ Contains(TextAt(i), Header)
               /\ Strip(SplitOnce(Strip(TextAt(i)), Header)[1]) # <<>> ) =>
                /\ NameConsumed(i, Normalized(SplitOnce(Strip(TextAt(i)), Header)[1]))
                /\ accumulating'[i]
          /\ ( /\ AfterNameLabel(i) /\ Contains(TextAt(i), Header)
               /\ Strip(SplitOnce(Strip(TextAt(i)), Header)[1]) = <<>> ) =>
                /\ expect_name'[i] /\ result'[i] = result[i]
                /\ accumulating'[i]
          /\ ( /\ AtBlock(i) /\ expect_name[i]
               /\ (ContentOf(Current(i)).t = "str" => Strip(TextAt(i)) = <<>>) ) =>
                expect_name'[i] /\ result'[i] = result[i]]_vars

\* The label Name, a blank block and a Form line gave the line as the name
\* and no form.
C12_Witness ==
    /\ pc[1] = "loop" /\ idx[1] = 4
    /\ blocks[1] = <<NameLabel, BlankLine, FormLine>>
    /\ fired[1][3].rule = "name_value"
    /\ ~expect_name[1]
    /\ result[1]["Name"] = Chars("Form 114")
    /\ DOMAIN result[1] = {"Name"}

YesChecked == Chars("[\"Yes\",\" [x] \"]")
NoChecked == Chars("[\"No\",\" [X] \"]")

\* text holds 14a, a checked Yes, 14b and a checked No, in this order, the
\* checked Yes before the first 14b that follows the 14a.
HasCheckboxPattern(text) ==
    \E a, y, b, n \in 1 .. Len(text) :
        /\ a < y /\ y < b /\ b < n
        /\ StartsWithAt(text, a, Chars("14a"))
        /\ StartsWithAt(text, y, YesChecked)
        /\ StartsWithAt(text, b, Chars("14b"))
        /\ \A m \in a .. b - 1 : ~StartsWithAt(text, m, Chars("14b"))
        /\ StartsWithAt(text, n, NoChecked)

\* The last step of invocation i parsed the text of the buffer.
JustParsed(i) == pc[i] = "loop" /\ fired[i] # <<>> /\ LastFired(i).completed

\* C13: the parse of a blob that holds 14a, a checked Yes, 14b and a checked
\* No has FINANCIAL_Interest_accounts true, from the segment of 14a, and
\* Sign_Auth_no_interest false, from the segment of 14b; every parse holds
\* both keys as booleans.
C13_CheckboxSegments ==
    \A i \in DOMAIN pc : JustParsed(i) =>
        /\ result[i]["Filer_Information"]["FINANCIAL_Interest_accounts"] \in BOOLEAN
        /\ result[i]["Filer_Information"]["Sign_Auth_no_interest"] \in BOOLEAN
        /\ HasCheckboxPattern(JoinLines(table_buf[i])) =>
              /\ result[i]["Filer_Information"]["FINANCIAL_Interest_accounts"] = TRUE
              /\ result[i]["Filer_Information"]["Sign_Auth_no_interest"] = FALSE

ForeignKeys == {"Type", "Number", "Country_of_issue"}

\* The value of sub-field k that text holds, empty when it holds none.
ForeignValue(text, k) ==
    CASE k = "Type" -> OrElse(grab(Re4aType(1), text), grab(Re4aType(0), text))
      [] k = "Number" -> grab(ReCell("4b Number"), text)
      [] k = "Country_of_issue" -> grab(ReCell("4c Country of Issue"), text)

\* The sub-fields text holds with a value that is not empty.
ForeignExtracted(text) == {k \in ForeignKeys : ForeignValue(text, k) # <<>>}

\* fi is the parse of text as far as the foreign identification goes.
ForeignAsExtracted(fi, text) ==
    /\ ("Foreign_identification" \in DOMAIN fi) <=> (ForeignExtracted(text) # {})
    /\ "Foreign_identification" \in DOMAIN fi =>
          /\ DOMAIN fi["Foreign_identification"] = ForeignExtracted(text)
          /\ \A k \in ForeignExtracted(text) :
                fi["Foreign_identification"][k] = ForeignValue(text, k)

\* C14: Foreign_identification is in Filer_Information exactly if one of its
\* sub-fields Type, Number, Country_of_issue was extracted with a value that
\* is not empty; it then holds the extracted sub-fields only, none empty; it
\* is never an empty mapping.  A type, a number and a hyphen as country give
\* the type and the number; a placeholder as number alone gives no key.
C14_ForeignPresence ==
    \A i \in DOMAIN pc :
        /\ "Filer_Information" \in DOMAIN result[i]
             /\ "Foreign_identification" \in DOMAIN result[i]["Filer_Information"] =>
              /\ DOMAIN result[i]["Filer_Information"]["Foreign_identification"] # {}
              /\ DOMAIN result[i]["Filer_Information"]["Foreign_identification"]
                    \subseteq ForeignKeys
              /\ \A k \in DOMAIN result[i]["Filer_Information"]["Foreign_identification"] :
                    result[i]["Filer_Information"]["Foreign_identification"][k]
                        \notin PlaceholderTokens \cup {<<>>}
        /\ JustParsed(i) =>
              /\ ForeignAsExtracted(result[i]["Filer_Information"], JoinLines(table_buf[i]))
              /\ JoinLines(table_buf[i]) = ForeignBlob =>
                    result[i]["Filer_Information"]["Foreign_identification"] =
                        [Type |-> Chars("Passport"), Number |-> Chars("123")]
              /\ JoinLines(table_buf[i]) \in {ForeignPlaceholderBlob, SingleLineBlob} =>
                    "Foreign_identification" \notin DOMAIN result[i]["Filer_Information"]

\* A blob with a foreign identification was parsed after one without.
C14_Witness ==
    /\ JustParsed(1) /\ idx[1] = 3
    /\ blocks[1][1] = Block(ForeignPlaceholderBlob) /\ blocks[1][2] = Block(ForeignBlob)
    /\ DOMAIN result[1]["Filer_Information"]["Foreign_identification"] = {"Type", "Number"}

\* The texts among the contents of the blocks of invocation i.
TextsGiven(i) ==
    {ContentOf(blocks[i][j]).v : j \in {m \in 1 .. Len(blocks[i]) : ContentOf(blocks[i][m]).t = "str"}}

\* The last step of invocation i stored the block before the loop's position
\* as the name.
JustNamed(i) ==
    /\ pc[i] = "loop" /\ fired[i] # <<>>
    /\ LastFired(i) = [branch |-> "line", rule |-> "name_value", completed |-> FALSE]

\* C15: _clean is idempotent: cleaning a cleaned value changes nothing, for
\* every text given and for the name the engine stored by cleaning a line.
C15_CleanIdempotent ==
    \A i \in DOMAIN pc :
        /\ \A s \in TextsGiven(i) : _clean(PyStr(_clean(PyStr(s)))) = _clean(PyStr(s))
        /\ JustNamed(i) =>
              /\ result[i]["Name"] = _clean(PyStr(ContentOf(blocks[i][idx[i] - 1]).v))
              /\ _clean(PyStr(result[i]["Name"])) = result[i]["Name"]

\* A padded value was stored without its padding.
C15_Witness ==
    /\ JustNamed(1)
    /\ blocks[1][2] = Block(<<" ", "a", " ">>)
    /\ result[1]["Name"] = <<"a">>

\* The em-dash as the character, as the escaped text and mis-decoded.
EmDashEncodings == {<<"U+2014">>, Chars("\\u2014"), <<"U+201A", "U+00C4", "U+00EE">>}

\* C16: a value that is, once trimmed, the em-dash in one of its encodings
\* is cleaned to the empty string, as the empty string, "<empty>" and the
\* hyphen are; _clean gives the empty string exactly for the values
\* _is_placeholder accepts, None among them.
C16_PlaceholdersAgree ==
    \A i \in DOMAIN pc :
        /\ \A s \in TextsGiven(i) :
              /\ Strip(s) \in EmDashEncodings \cup {<<>>, Chars("<empty>"), Chars("-")}
                    => _clean(PyStr(s)) = <<>>
              /\ (_clean(PyStr(s)) = <<>>) <=> _is_placeholder(PyStr(s))
        /\ _clean(PyNone) = <<>> /\ _is_placeholder(PyNone)
        /\ JustNamed(i) =>
              ((result[i]["Name"] = <<>>)
                  <=> _is_placeholder(PyStr(ContentOf(blocks[i][idx[i] - 1]).v)))

\* A padded mis-decoded em-dash was stored as the empty name.
C16_Witness ==
    /\ JustNamed(1)
    /\ blocks[1][2] = Block(<<" ">> \o EmDashMisdecoded)
    /\ result[1]["Name"] = <<>>
    /\ _is_placeholder(PyStr(<<" ">> \o EmDashMisdecoded))

Reversed(blks) == [j \in 1 .. Len(blks) |-> blks[Len(blks) + 1 - j]]

\* C17: the mapping returned depends on the order of the blocks: the three
\* blocks of the blob in their order give a Filer_Information, with the type
\* of filer and the TIN type, and the same blocks in the reverse order give
\* none, the call ending inside a blob that the last block opened.
C17_OrderSensitive ==
    \A i \in DOMAIN pc : Done(i) =>
        /\ blocks[i] = ThreeBlocks =>
              /\ "Filer_Information" \in DOMAIN ret[i]
              /\ ret[i]["Filer_Information"]["Type_of_filer"] = Chars("Individual")
              /\ "Filer_Information" \notin DOMAIN Parse(Reversed(blocks[i]))
        /\ blocks[i] = Reversed(ThreeBlocks) =>
              /\ "Filer_Information" \notin DOMAIN ret[i]
              /\ "Filer_Information" \in DOMAIN Parse(Reversed(blocks[i]))

\* The three blocks in the reverse order gave no Filer_Information.
C17_Witness ==
    /\ Done(1) /\ blocks[1] = Reversed(ThreeBlocks)
    /\ accumulating[1] /\ table_buf[1] = <<BlobPart1>>
    /\ DOMAIN ret[1] = Defaulted

\* The block the loop is at is a string that is not blank, met with a blob
\* open: it is appended.
Appending(i) == AtText(i) /\ accumulating[i] /\ Strip(TextAt(i)) # <<>>

\* The buffer with the block the loop is at appended, joined by newlines.
JoinedWith(i) == JoinLines(Append(table_buf[i], TextAt(i)))

\* C18: after an append the engine stays Accumulating exactly if the count
\* of [ less the count of ] over the whole joined buffer is above 0; when it
\* is not, the joined buffer is parsed and the parse stored under
\* Filer_Information in the same step, and the engine is Idle for the next
\* block; no step that leaves the engine Accumulating writes
\* Filer_Information.
C18_ExitCondition ==
    [][\A i \in DOMAIN pc :
          /\ Appending(i) =>
                /\ pc'[i] = "loop" /\ idx'[i] = idx[i] + 1
                /\ accumulating'[i] <=> (NetBrackets(JoinedWith(i)) > 0)
                /\ ~accumulating'[i] =>
                      /\ "Filer_Information" \in DOMAIN result'[i]
                      /\ result'[i]["Filer_Information"] = _parse_table_blob(JoinedWith(i))
                      /\ LastFired(i)'.completed
          /\ (AtBlock(i) /\ accumulating'[i]) =>
                SameFilerInformation(result[i], result'[i])]_vars

\* The second block of a blob closed it: the buffer was parsed.
C18_Witness ==
    /\ pc[1] = "loop" /\ idx[1] = 4
    /\ blocks[1] = <<NullContent, Block(BlobPart1), Block(BlobPart3)>>
    /\ ~accumulating[1]
    /\ fired[1][2] = [branch |-> "line", rule |-> "blob", completed |-> FALSE]
    /\ fired[1][3] = [branch |-> "buffer", rule |-> "none", completed |-> TRUE]
    /\ result[1]["Filer_Information"] = _parse_table_blob(JoinLines(<<BlobPart1, BlobPart3>>))

\* C19: a block consumed while a blob is open is buffer input alone: no
\* rule is applied to it, every top-level key other than Filer_Information
\* keeps its value, no such key appears, and expect_name keeps its value,
\* whatever rule the content would match with no blob open.
C19_BufferOnly ==
    [][\A i \in DOMAIN pc :
          Appending(i) =>
              /\ SameExcept(result[i], result'[i], {"Filer_Information"})
              /\ expect_name'[i] = expect_name[i]
              /\ LastFired(i)'.branch = "buffer"
              /\ LastFired(i)'.rule = "none"]_vars

\* After the label Name and the header, "Form 114" went to the buffer: Form
\* is not set and the name is still expected.
C19_Witness ==
    /\ pc[1] = "loop" /\ idx[1] = 4
    /\ blocks[1] = <<NameLabel, HeaderLine, FormLine>>
    /\ fired[1][3].branch = "buffer"
    /\ FirstRule(Strip(ContentOf(FormLine).v), FALSE) = 2
    /\ expect_name[1]
    /\ DOMAIN result[1] = {"Filer_Information"}

\* C20 as stated: while a blob is open, every block whose content is a
\* string is appended to the buffer as one entry.
C20_Original ==
    [][\A i \in DOMAIN pc :
          (AtText(i) /\ accumulating[i]) =>
              table_buf'[i] = Append(table_buf[i], TextAt(i))]_vars

\* C20: while a blob is open, every block whose content is a string that is
\* not blank is appended to the buffer as one entry, as it is: not stripped
\* and not split into lines; a block that is blank or holds no string leaves
\* the buffer as it is and the blob open.
C20_AppendVerbatim ==
    [][\A i \in DOMAIN pc :
          /\ Appending(i) =>
                /\ table_buf'[i] = Append(table_buf[i], TextAt(i))
                /\ Len(table_buf'[i]) = Len(table_buf[i]) + 1
          /\ (AtBlock(i) /\ accumulating[i] /\ ~Appending(i)) =>
                /\ table_buf'[i] = table_buf[i]
                /\ accumulating'[i]]_vars

\* A blank block and then a padded block of two lines were met with a blob
\* open: the buffer holds the start of the blob and the padded block, as it
\* was.
C20_Witness ==
    /\ pc[1] = "loop" /\ idx[1] = 4
    /\ blocks[1] = <<Block(BlobPart1), BlankLine, Block(PaddedPart)>>
    /\ accumulating[1]
    /\ table_buf[1] = <<BlobPart1, PaddedPart>>
    /\ Strip(PaddedPart) # PaddedPart
    /\ "\n" \in {PaddedPart[j] : j \in DOMAIN PaddedPart}

\* The loop is at a string block met with no blob open whose stripped
\* content holds the header.
AtHeader(i) == AtText(i) /\ ~accumulating[i] /\ Contains(Strip(TextAt(i)), Header)

\* The text before and after the header of the block the loop is at.
BeforeAt(i) == Strip(SplitOnce(Strip(TextAt(i)), Header)[1])
TrailingAt(i) == Strip(SplitOnce(Strip(TextAt(i)), Header)[2])

\* The locals after the text before the header has gone through the line
\* rules as a line of its own.
BeforeAsLine(i) == NormalLine(Locals(i), BeforeAt(i), BeforeAt(i))

\* C21: the text before a glued header, when there is some, changes the
\* top-level keys and expect_name as the same text does when it is a line of
\* its own met with no blob open.
C21_BeforeAsLine ==
    [][\A i \in DOMAIN pc :
          (AtHeader(i) /\ BeforeAt(i) # <<>>) =>
              /\ SameExcept(result'[i], BeforeAsLine(i).result, {"Filer_Information"})
              /\ expect_name'[i] = BeforeAsLine(i).expect_name]_vars

\* C22: trailing text that starts with [[ seeds the buffer and is parsed at
\* once into Filer_Information, with no blob left open, when its brackets
\* balance; else the blob is open with that text as the only entry of the
\* buffer.  With no trailing text the blob is open with an empty buffer, and
\* the next block that is appended is the first entry.
C22_AfterHeader ==
    [][\A i \in DOMAIN pc :
          /\ (AtHeader(i) /\ StartsWith(TrailingAt(i), Chars("[["))) =>
                IF NetBrackets(TrailingAt(i)) <= 0
                THEN /\ ~accumulating'[i]
                     /\ "Filer_Information" \in DOMAIN result'[i]
                     /\ result'[i]["Filer_Information"] = _parse_table_blob(TrailingAt(i))
                ELSE /\ accumulating'[i]
                     /\ table_buf'[i] = <<TrailingAt(i)>>
                     /\ SameFilerInformation(result[i], result'[i])
          /\ (AtHeader(i) /\ TrailingAt(i) = <<>>) =>
                /\ accumulating'[i]
                /\ table_buf'[i] = <<>>
                /\ SameFilerInformation(result[i], result'[i])
          /\ (Appending(i) /\ table_buf[i] = <<>>) => table_buf'[i] = <<TextAt(i)>>]_vars

\* A header with a blob of one line was parsed at once; the header alone
\* then opened a blob with an empty buffer, and the next block is its first
\* entry.
C22_Witness ==
    /\ pc[1] = "loop" /\ idx[1] = 4
    /\ blocks[1] = <<Block(HeaderThenBlob), HeaderLine, FormLine>>
    /\ fired[1][1] = [branch |-> "header", rule |-> "none", completed |-> TRUE]
    /\ fired[1][2] = [branch |-> "header", rule |-> "none", completed |-> FALSE]
    /\ fired[1][3].branch = "buffer"
    /\ table_buf[1] = <<Chars("Form 114")>>

\* text from position pos on, nothing when pos is 0.
TextFrom(text, pos) == IF pos = 0 THEN <<>> ELSE SubSeq(text, pos, Len(text))

\* text up to the marker, all of it when it holds no marker.
TextBefore(text, marker) ==
    IF Find(Lower(text), marker) = 0 THEN text
    ELSE SubSeq(text, 1, Find(Lower(text), marker) - 1)

\* The text from the first 14a marker up to the next 14b marker, or to the
\* end without one; nothing without a 14a marker.
SegmentOf14a(text) ==
    TextBefore(TextFrom(text, Find(Lower(text), Chars("14a"))), Chars("14b"))

\* The text of the blob invocation i has just parsed.
ParsedText(i) == JoinLines(table_buf[i])
FinancialOf(i) == result[i]["Filer_Information"]["FINANCIAL_Interest_accounts"]

\* C23: two blobs with the same text from the 14a marker up to the next 14b
\* marker have the same FINANCIAL_Interest_accounts, whatever follows the
\* 14b marker; the value is true exactly if that segment holds a checked Yes
\* and no checked No.
C23_SegmentOnly ==
    /\ \A i, j \in DOMAIN pc :
          (JustParsed(i) /\ JustParsed(j)
              /\ SegmentOf14a(ParsedText(i)) = SegmentOf14a(ParsedText(j)))
          => FinancialOf(i) = FinancialOf(j)
    /\ \A i \in DOMAIN pc :
          JustParsed(i) =>
              FinancialOf(i) =
                  (/\ ReSearch(ReCheckedCell("Yes"), SegmentOf14a(ParsedText(i)), FALSE).ok
                   /\ ~ReSearch(ReCheckedCell("No"), SegmentOf14a(ParsedText(i)), FALSE).ok)

\* The text from the first 14b marker to the end; nothing without a marker.
SegmentOf14b(text) == TextFrom(text, Find(Lower(text), Chars("14b")))

\* text holds a cell with the option and a checked mark.
HoldsChecked(text, option) == ReSearch(ReCheckedCell(option), text, FALSE).ok

SignAuthOf(i) == result[i]["Filer_Information"]["Sign_Auth_no_interest"]

\* C24: Sign_Auth_no_interest is false when the text from the 14b marker to
\* the end holds a checked No; else it is true when that text holds a
\* checked Yes; else, and without a 14b marker, it is false.
C24_SignAuth ==
    \A i \in DOMAIN pc :
        JustParsed(i) =>
            SignAuthOf(i) =
                (/\ ~HoldsChecked(SegmentOf14b(ParsedText(i)), "No")
                 /\ HoldsChecked(SegmentOf14b(ParsedText(i)), "Yes"))

\* line holds a token of the shape month/day; line holds four digits in a row.
HasMonthDay(line) ==
    \E p \in 1 .. Len(line) - 2 :
        line[p] \in Digits /\ line[p + 1] = "/" /\ line[p + 2] \in Digits
HasFourDigits(line) ==
    \E p \in 1 .. Len(line) - 3 : \A k \in 0 .. 3 : line[p + k] \in Digits

\* The block the loop is at is a line of the calendar rule that lacks the
\* month and day or the year.
CalendarMiss(i) ==
    /\ IdleLine(i)
    /\ FirstRule(Strip(TextAt(i)), expect_name[i]) = 6
    /\ ~(HasMonthDay(Strip(TextAt(i))) /\ HasFourDigits(Strip(TextAt(i))))

\* C25: a line of the calendar rule without a month/day token or without a
\* token of four digits stores nothing: calendar_year_ended stays absent
\* when it was absent and keeps the value of an earlier line.
C25_CalendarMiss ==
    [][\A i \in DOMAIN pc : CalendarMiss(i) => result'[i] = result[i]]_vars

\* The mark tokens: x in either case, the checked-box glyph and the
\* checkmark glyph, in brackets.
MarkTokens == {<<"[", m, "]">> : m \in {"x", "X", "U+2611", "U+2713"}}
HasMarkToken(line) == \E token \in MarkTokens : Contains(line, token)

\* C26: a line that starts with "amended", in any case, sets Amended to
\* true exactly if it holds a mark token, and to false otherwise.
C26_AmendedMark ==
    [][\A i \in DOMAIN pc :
          (IdleLine(i) /\ FirstRule(Strip(TextAt(i)), expect_name[i]) = 7) =>
              /\ "Amended" \in DOMAIN result'[i]
              /\ result'[i]["Amended"] = HasMarkToken(Strip(TextAt(i)))]_vars

\* The rule that writes top-level key k, as its number in RuleNames.
RuleWriting(k) == CHOOSE n \in 1 .. 9 : KeysOfRule(n) = {k}

\* The last block of invocation i that rule n was applied to, and the text
\* the rule was given: the stripped line, or the text before the header.
LastApplied(i, n) ==
    CHOOSE j \in 1 .. Len(fired[i]) :
        /\ fired[i][j].rule = RuleNames[n]
        /\ \A m \in j + 1 .. Len(fired[i]) : fired[i][m].rule # RuleNames[n]
FragmentOf(i, j) ==
    IF fired[i][j].branch = "line"
    THEN Strip(ContentOf(blocks[i][j]).v)
    ELSE Strip(SplitOnce(Strip(ContentOf(blocks[i][j]).v), Header)[1])

\* The value rule n writes under key k from text alone.
ValueWritten(n, k, text) == ApplyRule(FreshLocals, RuleNames[n], text).result[k]

\* Block j of invocation i started a blob; the last block that did.
StartedBlob(i, j) ==
    \/ fired[i][j].branch = "header"
    \/ fired[i][j].branch = "line" /\ fired[i][j].rule = "blob"
LastStart(i) ==
    CHOOSE j \in 1 .. Len(fired[i]) :
        /\ StartedBlob(i, j)
        /\ \A m \in j + 1 .. Len(fired[i]) : ~StartedBlob(i, m)

\* The text block j seeds the buffer with, as a buffer.
SeedOf(i, j) ==
    IF fired[i][j].branch = "line" THEN <<ContentOf(blocks[i][j]).v>>
    ELSE IF StartsWith(Strip(SplitOnce(Strip(ContentOf(blocks[i][j]).v), Header)[2]), Chars("[["))
    THEN <<Strip(SplitOnce(Strip(ContentOf(blocks[i][j]).v), Header)[2])>>
    ELSE <<>>

\* The contents of the blocks a to b of invocation i that are strings and
\* not blank.
IsBufferInput(blk) == ContentOf(blk).t = "str" /\ Strip(ContentOf(blk).v) # <<>>
ContentsOf(blks) == [j \in DOMAIN blks |-> ContentOf(blks[j]).v]
BufferInput(i, a, b) == ContentsOf(SelectSeq(SubSeq(blocks[i], a, b), IsBufferInput))

\* The text of the last blob of invocation i, from the block that started
\* it to the last block examined.
LastBlobText(i) ==
    JoinLines(SeedOf(i, LastStart(i)) \o BufferInput(i, LastStart(i) + 1, Len(fired[i])))

\* C27: last write wins.  The mapping returned holds, for every top-level
\* key a rule wrote, the value that the last block the rule was applied to
\* gives by itself; a Filer_Information just stored is the parse of the text
\* of the last blob alone, from the block that started it: no field of an
\* earlier blob is kept.
C27_LastWriteWins ==
    \A i \in DOMAIN pc :
        /\ Done(i) =>
              \A k \in Detected \cup Defaulted :
                  RuleFired(i, RuleNames[RuleWriting(k)]) =>
                      ret[i][k] =
                          ValueWritten(RuleWriting(k), k,
                                       FragmentOf(i, LastApplied(i, RuleWriting(k))))
        /\ JustParsed(i) =>
              result[i]["Filer_Information"] = _parse_table_blob(LastBlobText(i))

\* A line set Amended to true and a blob with a foreign identification was
\* parsed; then a block with an amended line without a mark, the header and
\* another blob: Amended is false and the foreign identification is gone.
C27_Witness ==
    /\ Done(1)
    /\ blocks[1] = <<AmendedLine, Block(ForeignBlob), Block(AmendedThenBlob)>>
    /\ fired[1][1].rule = "amended" /\ fired[1][3].rule = "amended"
    /\ fired[1][2].completed /\ fired[1][3].completed
    /\ ret[1]["Amended"] = FALSE
    /\ "Foreign_identification" \in DOMAIN _parse_table_blob(ForeignBlob)
    /\ "Foreign_identification" \notin DOMAIN ret[1]["Filer_Information"]
    /\ ret[1]["Filer_Information"] = _parse_table_blob(SingleLineBlob)

AtBlobLine(i) == IdleLine(i) /\ FirstRule(Strip(TextAt(i)), expect_name[i]) = 10

LastTaken(i) ==
    IF \E j \in 1 .. Len(fired[i]) : fired[i][j].branch \notin {"skip", "blank"}
    THEN CHOOSE j \in 1 .. Len(fired[i]) :
            /\ fired[i][j].branch \notin {"skip", "blank"}
            /\ \A m \in j + 1 .. Len(fired[i]) : fired[i][m].branch \in {"skip", "blank"}
    ELSE 0

\* Block j of invocation i held the header, met with no blob open, and text
\* after it that does not start with [[.
HeaderWithoutBlob(i, j) ==
    /\ j # 0
    /\ fired[i][j].branch = "header"
    /\ ~StartsWith(Strip(SplitOnce(Strip(ContentOf(blocks[i][j]).v), Header)[2]), Chars("[["))

\* C29: between blocks, with a blob open, the buffer is empty, and the last
\* block that was neither blank nor without a string held the header and no
\* [[ after it, or the buffer has entries and more [ than ] over its lines
\* joined: no blob stays open on a buffer with balanced brackets.
C29_OpenMeansUnbalanced ==
    \A i \in DOMAIN pc :
        (pc[i] \in {"loop", "done"} /\ accumulating[i]) =>
            IF table_buf[i] = <<>>
            THEN HeaderWithoutBlob(i, LastTaken(i))
            ELSE NetBrackets(JoinLines(table_buf[i])) > 0

\* The header alone opened a blob with an empty buffer; after a blank
\* block, a block with the start of a blob was appended and the blob is
\* still open.
C29_Witness ==
    /\ pc[1] = "loop" /\ idx[1] = 4
    /\ blocks[1] = <<HeaderLine, BlankLine, Block(HeaderThenPart1)>>
    /\ accumulating[1]
    /\ table_buf[1] = <<HeaderThenPart1>>
    /\ NetBrackets(HeaderThenPart1) = 2

\* C30: a block with the header, met with no blob open, whose trailing text
\* does not start with [[ opens a blob with an empty buffer: the trailing
\* text, empty or not, is dropped.  The next block that is a string and not
\* blank is buffer input, with no rule applied to it; when its own brackets
\* balance the blob completes in that step and Filer_Information is the
\* parse of that block alone.
C30_HeaderWithoutBlob ==
    [][\A i \in DOMAIN pc :
          /\ (AtHeader(i) /\ ~StartsWith(TrailingAt(i), Chars("[["))) =>
                /\ accumulating'[i]
                /\ table_buf'[i] = <<>>
                /\ SameFilerInformation(result[i], result'[i])
          /\ (Appending(i) /\ table_buf[i] = <<>>) =>
                /\ LastFired(i)' = [branch |-> "buffer", rule |-> "none",
                                    completed |-> NetBrackets(TextAt(i)) <= 0]
                /\ SameExcept(result[i], result'[i], {"Filer_Information"})
                /\ expect_name'[i] = expect_name[i]
                /\ IF NetBrackets(TextAt(i)) <= 0
                   THEN /\ ~accumulating'[i]
                        /\ "Filer_Information" \in DOMAIN result'[i]
                        /\ result'[i]["Filer_Information"] = _parse_table_blob(TextAt(i))
                   ELSE /\ accumulating'[i]
                        /\ SameFilerInformation(result[i], result'[i])]_vars

\* The header with other text after it opened a blob; the line "Form 114"
\* after it was parsed as a blob and set no Form.
C30_Witness ==
    /\ pc[1] = "loop" /\ idx[1] = 3
    /\ blocks[1] = <<Block(HeaderThenText), FormLine>>
    /\ fired[1][1] = [branch |-> "header", rule |-> "none", completed |-> FALSE]
    /\ fired[1][2] = [branch |-> "buffer", rule |-> "none", completed |-> TRUE]
    /\ ~accumulating[1]
    /\ DOMAIN result[1] = {"Filer_Information"}
    /\ result[1]["Filer_Information"] = _parse_table_blob(Chars("Form 114"))

====
